---- MODULE Spec2Model ----
(***************************************************************************)
(* CareerCompass: the job-matching ranking pipeline.                       *)
(*                                                                         *)
(* JobMatcherAgent.process() (src/src/agents/job_matcher_agent.py) with    *)
(* its collaborators: corpus statistics, Retriever.retrieve_jobs, the      *)
(* completion call of BaseAgent.generate_response and the score parser     *)
(* _parse_job_scores_from_response.                                        *)
(*                                                                         *)
(* Texts are sequences of tokens; a token stands for one lexical form the  *)
(* regular expressions of the source distinguish.  Scores, thresholds and  *)
(* similarities are integers in hundredths (90 is 0.90, 90%).              *)
(***************************************************************************)
EXTENDS Integers, Sequences, FiniteSets, TLC

\* ------------------------------------------------------------------ bounds
MaxJobs == 3          \* largest corpus (total_jobs) explored
MaxResults == 3       \* largest n_results explored
MaxNear == 1          \* hits with a free distance in an answer of more than MaxJobs hits

\* -------------------------------------------------------- program constants
MIN_JOB_MATCH_SCORE == 60       \* settings.MIN_JOB_MATCH_SCORE = 0.60
min_semantic_similarity == 35   \* 0.35
DEFAULT_N_RESULTS == 5          \* context.get('n_results', 5)

\* ------------------------------------------------------------------ tokens
\* "hdr"      '### Job #n:' / '### Job n:'   (whitespace after ###)
\* "hdrTight" '###Job #n:'                   (no whitespace after ###)
\* "overall"  'Overall Match Score: p%'
\* "boldIn"   '**Overall Match Score:** p%'  (the form the prompt demands)
\* "boldOut"  '**Overall Match Score**: p%'
\* "plain"    'Match Score: p%' not preceded by 'Overall' (also the tail of
\*            an echoed 'Semantic Match Score: p%')
\* "pct"      'p% match'
\* "title"    the job's title and company, as the model writes them
\* "txt"      any other prose
\* "banner"   the '## N Job Matches Found ...' line of the final response
Tok(k, n) == [kind |-> k, n |-> n]

Hdr(n) == Tok("hdr", n)

HdrTight(n) == Tok("hdrTight", n)

Title(id) == Tok("title", id)

Txt == Tok("txt", 0)

Percents == {0, 50, 75, 90}

\* a percentage no score should have, which a completion text can still carry
OverPercent == 150

ScoreKinds == {"overall", "boldIn", "boldOut", "plain", "pct"}

\* --------------------------------------------------------- regex matching
\* score_patterns, in list order; PatternMatches(i, t) is TRUE when the
\* i-th regular expression matches the lexical form token t stands for.
NumPatterns == 4

PatternMatches(i, t) ==
    CASE i = 1 -> t.kind \in {"overall", "boldIn", "boldOut", "plain"}
      [] i = 2 -> t.kind = "boldOut"
      [] i = 3 -> t.kind \in {"overall", "plain"}
      [] i = 4 -> t.kind = "pct"
      [] OTHER -> FALSE

\* re.search(pattern, section): position of the leftmost match, 0 if none
ReSearch(i, section) ==
    LET hits == {k \in 1..Len(section) : PatternMatches(i, section[k])}
    IN  IF hits = {} THEN 0 ELSE CHOOSE k \in hits : \A j \in hits : k <= j

\* the delimiter of re.split in _parse_job_scores_from_response
IsSplitHeader(t) == t.kind = "hdr"

\* the pattern of re.sub in process(): '###\s*Job...' also matches the
\* form without whitespace
IsSubHeader(t) == t.kind \in {"hdr", "hdrTight"}

HeaderPositions(text) == {k \in 1..Len(text) : IsSplitHeader(text[k])}

\* re.split(header, response): the pieces between the delimiters, the
\* delimiters themselves removed; always at least one piece
RECURSIVE ReSplit(_)
ReSplit(text) ==
    LET hp == HeaderPositions(text)
    IN  IF hp = {} THEN <<text>>
        ELSE LET k == CHOOSE x \in hp : \A y \in hp : x <= y
             IN  <<SubSeq(text, 1, k - 1)>> \o ReSplit(SubSeq(text, k + 1, Len(text)))

NoScore == -1

\* the inner 'for pattern in score_patterns' loop: value of the first
\* pattern, in list order, that matches anywhere in the section
RECURSIVE ScoreFrom(_, _)
ScoreFrom(i, section) ==
    IF i > NumPatterns THEN NoScore
    ELSE LET k == ReSearch(i, section)
         IN  IF k # 0 THEN section[k].n ELSE ScoreFrom(i + 1, section)

score_value(section) == ScoreFrom(1, section)

Tail1(s) == IF s = <<>> THEN <<>> ELSE Tail(s)

\* _parse_job_scores_from_response(response, job_results, start_job_num):
\* one <<score, job_data, section>> per section that maps to a job
ParseSections(sections, job_results, start_job_num) ==
    LET idxs == {i \in 1..Len(sections) :
                    (start_job_num - 1) + (i - 1) < Len(job_results)}
        entry(i) == LET sv == score_value(sections[i])
                        job_idx == (start_job_num - 1) + (i - 1)
                    IN  [score |-> IF sv # NoScore THEN sv ELSE 0,
                         job_data |-> job_results[job_idx + 1],
                         section |-> sections[i]]
        RECURSIVE build(_)
        build(i) == IF i > Len(sections) THEN <<>>
                    ELSE (IF i \in idxs THEN <<entry(i)>> ELSE <<>>) \o build(i + 1)
    IN  build(1)

parse_job_scores_from_response(response, job_results, start_job_num) ==
    ParseSections(Tail1(ReSplit(response)), job_results, start_job_num)

\* ------------------------------------------------------- collaborators
\* the distances the vector index may report for a hit, in hundredths:
\* the two at the similarity floor, 0.65 (similarity 0.35) and 0.66
Distances == {65, 66}

\* completion failures (provider errors) and retrieval failures
CompletionErrors == {"rate_limit"}

RetrievalErrors == {"embedding_failed", "search_failed"}

\* BaseAgent.generate_response catches the provider error and RETURNS the
\* apology sentence with str(e) appended: prose, no header, no score
ApologyText(e) == <<Txt>>

\* The texts the completion service may return when asked about job id:
\* the demanded format with each score, a section without a score, texts
\* without any section header (with and without a score), a text that
\* echoes the prompt's 'Semantic Match Score: 50%' line above the overall
\* score, a text with the whitespace-free header form inside its
\* section, and the demanded format with a percentage above 100.  The
\* header number is whatever the model wrote.
Responses(id) ==
    {<<Hdr(1), Title(id), Tok("boldIn", p)>> : p \in Percents}
    \cup {<<Hdr(1), Title(id), Txt>>,
          <<Hdr(1), Title(id), Tok("boldIn", OverPercent)>>,
          <<Title(id), Txt>>,
          <<Title(id), Tok("boldIn", 90)>>,
          <<Hdr(1), Title(id), Tok("plain", 50), Tok("boldIn", 90)>>,
          <<Hdr(7), Title(id), HdrTight(7), Tok("boldIn", 90)>>}

\* ------------------------------------------------------------------ state
VARIABLES
    jobs_collection,    \* ids of the jobs in the vector index
    pc,                 \* position of the process() call
    context,            \* the context argument of the call
    has_resume,         \* the context passed validate_context
    n_results,          \* context.get('n_results', 5)
    min_match_score,    \* context.get('min_match_score', ...)
    total_jobs,         \* stats.get('total_jobs', 0)
    all_job_results,    \* retriever.retrieve_jobs(...)
    pre_filtered_jobs,  \* candidates with similarity >= 0.35
    matched_jobs,       \* accepted <<score, job_data, section>> tuples
    jobs_checked,       \* jobs_checked
    job_idx,            \* enumerate(pre_filtered_jobs, 1): next position
    result,             \* the value process() returns
    llm_calls,          \* ids of the jobs sent to the completion service
    llm_log,            \* what each completion call produced
    stats_calls,        \* number of get_stats calls
    embed_calls,        \* number of generate_embedding calls
    search_calls,       \* number of jobs_collection.query calls
    raised,             \* the error retrieve_jobs raised, "" if none
    p_pc,               \* position of a direct call of the score parser
    p_response,         \* its argument response
    p_job_results,      \* its argument job_results
    p_start_job_num,    \* its argument start_job_num
    p_scored,           \* the list it returns
    c_pc,               \* two concurrent process() calls: position of each
    c_n,                \* n_results of each
    c_min,              \* min_match_score of each
    c_script,           \* what the completion service answers each, by pool position
    c_matched,          \* matched_jobs of each
    c_checked,          \* jobs_checked of each
    c_idx,              \* loop position of each
    c_result,           \* the value each returns
    c_requests,         \* the calls in the order their completion requests arrived
    q_resume,           \* resume_text given to _extract_key_resume_info
    q_hash,             \* string hash order of each run of the program
    q_out,              \* the queries returned in each run, in evaluation order
    r_pc,               \* position of a direct call of Retriever.retrieve_jobs
    r_hits,             \* what the index answers: <<id, distance>> per hit
    r_jobs,             \* the list retrieve_jobs returns
    s_pc,               \* position of a process_query call of the app
    s_query,            \* the user's query
    s_llm,              \* what the supervisor's fallback completion call does
    s_route,            \* the name SupervisorAgent.process returned
    s_llm_calls,        \* completion calls the supervisor made
    s_agent_calls,      \* the specialized agents process_query called, in order
    u_pc,               \* two sessions uploading: position of each in parse_resume
    u_upload,           \* the file each session uploaded
    u_file,             \* content of the file at the temporary path, "absent" if none
    u_parsed,           \* the text each session's ResumeParser.parse_resume read
    u_result,           \* what parse_resume returned to each session
    b_pc,               \* position of an add_jobs_batch call
    b_jobs,             \* its argument jobs
    b_handed,           \* the lists it hands to jobs_collection.add
    b_stored,           \* the entries of the index after the call
    b_result,           \* what the call returns or raises
    k_pc,               \* position of a chunk_text call
    k_text,             \* the cleaned text
    k_size,             \* chunk_size
    k_overlap,          \* chunk_overlap
    k_start,            \* start
    k_prev,             \* start at the head of the previous iteration
    k_chunks,           \* chunks
    k_iters             \* iterations of the while loop so far

procVars == <<jobs_collection, pc, context, has_resume, n_results, min_match_score,
              total_jobs, all_job_results, pre_filtered_jobs, matched_jobs,
              jobs_checked, job_idx, result, llm_calls, llm_log, stats_calls,
              embed_calls, search_calls, raised>>

parseVars == <<p_pc, p_response, p_job_results, p_start_job_num, p_scored>>

concVars == <<c_pc, c_n, c_min, c_script, c_matched, c_checked, c_idx,
              c_result, c_requests>>

queryVars == <<q_resume, q_hash, q_out>>

retrVars == <<r_pc, r_hits, r_jobs>>

routeVars == <<s_pc, s_query, s_llm, s_route, s_llm_calls, s_agent_calls>>

uploadVars == <<u_pc, u_upload, u_file, u_parsed, u_result>>

batchVars == <<b_pc, b_jobs, b_handed, b_stored, b_result>>

chunkVars == <<k_pc, k_text, k_size, k_overlap, k_start, k_prev, k_chunks, k_iters>>

\* the state outside a process() call
sideVars == <<parseVars, concVars, queryVars, retrVars, routeVars,
              uploadVars, batchVars, chunkVars>>

vars == <<procVars, sideVars>>

NoResult == [kind |-> "none", text |-> <<>>, cause |-> "", checked |-> 0]

Outcome(k, text, cause, checked) ==
    [kind |-> k, text |-> text, cause |-> cause, checked |-> checked]

\* the error response without the message it was given
format_error_response_generic(msg) == Outcome("error", <<>>, "", 0)

\* BaseAgent.format_error_response(error_msg)
format_error_response(msg) == Outcome("error", <<>>, msg, 0)

\* the context arguments: None, {}, a context without 'resume_text', one
\* with it
NoContext == [given |-> FALSE, keys |-> {}]

Contexts ==
    {NoContext,
     [given |-> TRUE, keys |-> {}],
     [given |-> TRUE, keys |-> {"n_results"}],
     [given |-> TRUE, keys |-> {"resume_text", "n_results"}]}

\* validation that only asks for a context that is not None
validate_context_given(ctx, required_keys) == ctx.given

\* BaseAgent.validate_context(context, required_keys): a missing or empty
\* context fails, and so does one that lacks a required key
validate_context(ctx, required_keys) ==
    IF ~ctx.given \/ ctx.keys = {}
    THEN FALSE
    ELSE {key \in required_keys : key \notin ctx.keys} = {}

\* the pool size without the tier for large corpora
max_candidates_flat(total) == IF 50 < total THEN 50 ELSE total

\* the tiered candidate-pool size, lines 81-89
max_candidates(total) ==
    IF total <= 500 THEN (IF 50 < total THEN 50 ELSE total)
    ELSE IF total <= 5000 THEN (IF 50 < total THEN 50 ELSE total)
    ELSE (IF 75 < total THEN 75 ELSE total)

Min(a, b) == IF a < b THEN a ELSE b

\* rank counted from 0
FormatHitZeroBased(i, id, distance) ==
    [rank |-> i, id |-> id, similarity_score |-> 100 - distance,
     distance |-> distance]

\* Retriever.retrieve_jobs formats hit i (0-based) of the index
FormatHit(i, id, distance) ==
    [rank |-> i + 1, id |-> id, similarity_score |-> 100 - distance,
     distance |-> distance]

\* Retriever.retrieve_jobs, lines 59-76: the formatted hits
retrieve_jobs(hits) == [i \in 1..Len(hits) |-> FormatHit(i - 1, hits[i][1], hits[i][2])]

\* the id orders explored for the hits of a query: the m nearest jobs are
\* the first m ids, nearest first, or the last m ids, nearest first
IdOrders(coll, m) ==
    LET c == Cardinality(coll)
    IN  {[i \in 1..m |-> i], [i \in 1..m |-> c + 1 - i]}

\* the largest distance explored
Farthest == CHOOSE d \in Distances : \A e \in Distances : e <= d

\* the answers jobs_collection.query can give for k requested results:
\* min(k, count) distinct ids of the collection, distances ascending.  In
\* an answer of more than MaxJobs hits only the nearest MaxNear hits take
\* every distance; the hits behind them are at the largest distance.
IndexAnswers(coll, k) ==
    LET m == Min(k, Cardinality(coll))
        near == IF m <= MaxJobs THEN m ELSE MaxNear
        ds == {d \in [1..near -> Distances] :
                   \A i \in 1..near : i < near => d[i] <= d[i + 1]}
    IN  {[i \in 1..m |-> <<ids[i], IF i <= near THEN d[i] ELSE Farthest>>] :
             ids \in IdOrders(coll, m), d \in ds}

\* the similarity floor as a strict comparison
PreFilterStrict(jobs) == SelectSeq(jobs, LAMBDA job : job.similarity_score > min_semantic_similarity)

\* lines 101-105: the candidates with similarity_score >= 0.35, in order
PreFilter(jobs) == SelectSeq(jobs, LAMBDA job : job.similarity_score >= min_semantic_similarity)

ProcInit ==
    /\ pc = "idle"
    /\ context = NoContext
    /\ has_resume = FALSE
    /\ n_results = DEFAULT_N_RESULTS
    /\ min_match_score = MIN_JOB_MATCH_SCORE
    /\ total_jobs = 0
    /\ all_job_results = <<>>
    /\ pre_filtered_jobs = <<>>
    /\ matched_jobs = <<>>
    /\ jobs_checked = 0
    /\ job_idx = 1
    /\ result = NoResult
    /\ llm_calls = <<>>
    /\ llm_log = <<>>
    /\ stats_calls = 0
    /\ embed_calls = 0
    /\ search_calls = 0
    /\ raised = ""

ParseIdle ==
    /\ p_pc = "unused"
    /\ p_response = <<>>
    /\ p_job_results = <<>>
    /\ p_start_job_num = 1
    /\ p_scored = <<>>

Calls == {1, 2}

Runs == {1, 2}

ConcIdle ==
    /\ c_pc = [c \in Calls |-> "unused"]
    /\ c_n = [c \in Calls |-> DEFAULT_N_RESULTS]
    /\ c_min = [c \in Calls |-> MIN_JOB_MATCH_SCORE]
    /\ c_script = [c \in Calls |-> <<>>]
    /\ c_matched = [c \in Calls |-> <<>>]
    /\ c_checked = [c \in Calls |-> 0]
    /\ c_idx = [c \in Calls |-> 1]
    /\ c_result = [c \in Calls |-> NoResult]
    /\ c_requests = <<>>

QueryIdle ==
    /\ q_resume = <<>>
    /\ q_hash = [r \in Runs |-> <<>>]
    /\ q_out = [r \in Runs |-> <<>>]

RetrIdle ==
    /\ r_pc = "unused"
    /\ r_hits = <<>>
    /\ r_jobs = <<>>

RouteIdle ==
    /\ s_pc = "unused"
    /\ s_query = <<>>
    /\ s_llm = <<>>
    /\ s_route = ""
    /\ s_llm_calls = 0
    /\ s_agent_calls = <<>>

Sessions == {1, 2}

\* streamlit_app.py line 393: the extensions the uploader accepts
Extensions == {"pdf", "docx", "txt"}

UploadIdle ==
    /\ u_pc = [x \in Sessions |-> "unused"]
    /\ u_upload = [x \in Sessions |-> [ext |-> "", text |-> ""]]
    /\ u_file = [e \in Extensions |-> "absent"]
    /\ u_parsed = [x \in Sessions |-> ""]
    /\ u_result = [x \in Sessions |-> ""]

BatchIdle ==
    /\ b_pc = "unused"
    /\ b_jobs = <<>>
    /\ b_handed = [documents |-> <<>>, embeddings |-> <<>>, metadatas |-> <<>>, ids |-> <<>>]
    /\ b_stored = {}
    /\ b_result = [raised |-> FALSE, ids |-> <<>>]

ChunkIdle ==
    /\ k_pc = "unused"
    /\ k_text = <<>>
    /\ k_size = 0
    /\ k_overlap = 0
    /\ k_start = 0
    /\ k_prev = 0
    /\ k_chunks = <<>>
    /\ k_iters = 0

\* everything outside the process() call at rest
SideIdle ==
    /\ ParseIdle /\ ConcIdle /\ QueryIdle /\ RetrIdle
    /\ RouteIdle /\ UploadIdle /\ BatchIdle /\ ChunkIdle

Init ==
    /\ jobs_collection \in {1..n : n \in 0..MaxJobs}
    /\ ProcInit
    /\ SideIdle

\* ---------------------------------------------------------------- actions
Thresholds == {0, MIN_JOB_MATCH_SCORE}

\* process(), lines 54-62: a call starts; the context is validated
ProcessCall(ctx, n, m) ==
    /\ pc = "idle"
    /\ context' = ctx
    /\ has_resume' = validate_context(ctx, {"resume_text"})
    /\ n_results' = n
    /\ min_match_score' = m
    /\ total_jobs' = 0
    /\ all_job_results' = <<>>
    /\ pre_filtered_jobs' = <<>>
    /\ matched_jobs' = <<>>
    /\ jobs_checked' = 0
    /\ job_idx' = 1
    /\ llm_calls' = <<>>
    /\ llm_log' = <<>>
    /\ stats_calls' = 0
    /\ embed_calls' = 0
    /\ search_calls' = 0
    /\ raised' = ""
    /\ IF ~has_resume'
       THEN /\ result' = format_error_response("need_resume")
            /\ pc' = "done"
       ELSE /\ result' = NoResult
            /\ pc' = "stats"
    /\ UNCHANGED <<jobs_collection, sideVars>>

\* the empty-corpus test never true for a count
CorpusEmptyNever(total) == total < 0

\* line 70: total_jobs == 0
CorpusEmpty(total) == total = 0

\* ChromaManager.get_stats()['total_jobs']: jobs_collection.count()
get_stats(coll) == Cardinality(coll)

\* lines 65-71: chroma_manager.get_stats() and the empty-corpus return
GetStats ==
    /\ pc = "stats"
    /\ stats_calls' = stats_calls + 1
    /\ total_jobs' = get_stats(jobs_collection)
    /\ IF CorpusEmpty(total_jobs')
       THEN /\ result' = Outcome("corpus_empty", <<>>, "", 0)
            /\ pc' = "done"
       ELSE /\ result' = result
            /\ pc' = "retrieve"
    /\ UNCHANGED <<sideVars, raised>>
    /\ UNCHANGED <<jobs_collection, context, has_resume, n_results,
                   min_match_score,
                   all_job_results, pre_filtered_jobs, matched_jobs,
                   jobs_checked, job_idx, llm_calls, llm_log, embed_calls,
                   search_calls>>

\* a query that consumes the entries it returns
collection_query_consuming(coll) == {}

\* ChromaManager.search_jobs, lines 201-205: the collection after
\* jobs_collection.query(...), a read
collection_query(coll) == coll

\* lines 91-105 with Retriever.retrieve_jobs and ChromaManager.search_jobs:
\* the query is embedded, the index searched, the hits formatted and
\* pre-filtered
RetrieveOk ==
    /\ pc = "retrieve"
    /\ embed_calls' = embed_calls + 1
    /\ search_calls' = search_calls + 1
    /\ \E h \in IndexAnswers(jobs_collection, max_candidates(total_jobs)) :
           all_job_results' = retrieve_jobs(h)
    /\ IF all_job_results' = <<>>
       THEN /\ result' = Outcome("no_candidates", <<>>, "", 0)
            /\ pre_filtered_jobs' = <<>>
            /\ pc' = "done"
       ELSE /\ result' = result
            /\ pre_filtered_jobs' = PreFilter(all_job_results')
            /\ pc' = "loop"
    /\ UNCHANGED <<sideVars, raised>>
    /\ jobs_collection' = collection_query(jobs_collection)
    /\ UNCHANGED <<context, has_resume, n_results,
                   min_match_score,
                   total_jobs, matched_jobs, jobs_checked, job_idx,
                   llm_calls, llm_log, stats_calls>>

\* the embedding call or the index query raises; the outer handler
\* (lines 195-196) turns it into the error response
RetrieveFail(e) ==
    /\ pc = "retrieve"
    /\ embed_calls' = embed_calls + 1
    /\ search_calls' = IF e = "search_failed" THEN search_calls + 1 ELSE search_calls
    /\ result' = format_error_response(e)
    /\ pc' = "done"
    /\ raised' = e
    /\ UNCHANGED sideVars
    /\ jobs_collection' = IF e = "search_failed" THEN collection_query(jobs_collection)
                        ELSE jobs_collection
    /\ UNCHANGED <<context, has_resume, n_results,
                   min_match_score,
                   total_jobs, all_job_results, pre_filtered_jobs,
                   matched_jobs, jobs_checked, job_idx, llm_calls, llm_log,
                   stats_calls>>

\* off by one: stop only when more than n matches are held
EnoughMatchesStrict(matched, n) == Len(matched) > n

\* lines 119 and 163: len(matched_jobs) >= n_results
EnoughMatches(matched, n) == Len(matched) >= n

\* the for loop runs out of candidates
LoopExhausted ==
    /\ pc = "loop"
    /\ job_idx > Len(pre_filtered_jobs)
    /\ pc' = "assemble"
    /\ UNCHANGED <<sideVars, raised>>
    /\ UNCHANGED <<jobs_collection, context, has_resume, n_results,
                   min_match_score,
                   total_jobs, all_job_results, pre_filtered_jobs,
                   matched_jobs, jobs_checked, job_idx, result, llm_calls,
                   llm_log, stats_calls, embed_calls, search_calls>>

\* lines 119-121: enough matches at the head of an iteration
LoopBreak ==
    /\ pc = "loop"
    /\ job_idx <= Len(pre_filtered_jobs)
    /\ EnoughMatches(matched_jobs, n_results)
    /\ pc' = "assemble"
    /\ UNCHANGED <<sideVars, raised>>
    /\ UNCHANGED <<jobs_collection, context, has_resume, n_results,
                   min_match_score,
                   total_jobs, all_job_results, pre_filtered_jobs,
                   matched_jobs, jobs_checked, job_idx, result, llm_calls,
                   llm_log, stats_calls, embed_calls, search_calls>>

\* line 158: the threshold test
MeetsThreshold(score, m) == score >= m

\* lines 156-158: job_scored is the parser's list for the single job
Accepts(job_scored, m) ==
    /\ job_scored # <<>>
    /\ MeetsThreshold(job_scored[1].score, m)

\* the accepted list kept sorted by descending score
InsertByScore(matched, e) ==
    LET k == Cardinality({j \in 1..Len(matched) : matched[j].score >= e.score})
    IN  SubSeq(matched, 1, k) \o <<e>> \o SubSeq(matched, k + 1, Len(matched))

\* line 159: matched_jobs.append((score, job_data, section))
AppendMatch(matched, e) == Append(matched, e)

\* a candidate that was not accepted is sent again
HandleResponseRetry(job, response) ==
    LET job_scored == parse_job_scores_from_response(response, <<job>>, 1)
    IN  /\ IF Accepts(job_scored, min_match_score)
           THEN /\ matched_jobs' = AppendMatch(matched_jobs, job_scored[1])
                /\ IF EnoughMatches(matched_jobs', n_results)
                   THEN pc' = "assemble" /\ job_idx' = job_idx
                   ELSE pc' = pc /\ job_idx' = job_idx + 1
           ELSE /\ matched_jobs' = matched_jobs
                /\ pc' = pc
                /\ job_idx' = IF jobs_checked = job_idx - 1 THEN job_idx ELSE job_idx + 1
        /\ result' = result

\* lines 152-166: the response is parsed; the job is accepted or not; the
\* loop stops when enough matches are found, or goes on to the next job
HandleResponse(job, response) ==
    LET job_scored == parse_job_scores_from_response(response, <<job>>, 1)
    IN  /\ IF Accepts(job_scored, min_match_score)
           THEN /\ matched_jobs' = AppendMatch(matched_jobs, job_scored[1])
                /\ IF EnoughMatches(matched_jobs', n_results)
                   THEN pc' = "assemble" /\ job_idx' = job_idx
                   ELSE pc' = pc /\ job_idx' = job_idx + 1
           ELSE /\ matched_jobs' = matched_jobs
                /\ pc' = pc
                /\ job_idx' = job_idx + 1
        /\ result' = result

\* BaseAgent.generate_response, lines 86-98: the provider's text, or the
\* apology when the provider raises
generate_response(failed, text) == IF failed THEN ApologyText(text) ELSE text

\* a failed completion call ends the whole call with the error response
ScoreJobAbort(failed, text) ==
    /\ pc = "loop"
    /\ job_idx <= Len(pre_filtered_jobs)
    /\ ~EnoughMatches(matched_jobs, n_results)
    /\ LET job == pre_filtered_jobs[job_idx]
           response == generate_response(failed, text)
       IN  /\ IF failed THEN text \in CompletionErrors ELSE text \in Responses(job.id)
           /\ jobs_checked' = jobs_checked + 1
           /\ llm_calls' = Append(llm_calls, job.id)
           /\ llm_log' = Append(llm_log, [id |-> job.id, failed |-> failed, text |-> response])
           /\ IF failed
              THEN /\ result' = format_error_response(text)
                   /\ pc' = "done"
                   /\ UNCHANGED <<matched_jobs, job_idx>>
              ELSE HandleResponse(job, response)
    /\ UNCHANGED <<sideVars, raised>>
    /\ UNCHANGED <<jobs_collection, context, has_resume, n_results,
                   min_match_score,
                   total_jobs, all_job_results, pre_filtered_jobs,
                   stats_calls, embed_calls, search_calls>>

\* lines 123-170: one iteration of the scoring loop
ScoreJob(failed, text) ==
    /\ pc = "loop"
    /\ job_idx <= Len(pre_filtered_jobs)
    /\ ~EnoughMatches(matched_jobs, n_results)
    /\ LET job == pre_filtered_jobs[job_idx]
           response == generate_response(failed, text)
       IN  /\ IF failed THEN text \in CompletionErrors ELSE text \in Responses(job.id)
           /\ jobs_checked' = jobs_checked + 1
           /\ llm_calls' = Append(llm_calls, job.id)
           /\ llm_log' = Append(llm_log, [id |-> job.id, failed |-> failed, text |-> response])
           /\ HandleResponse(job, response)
    /\ UNCHANGED <<sideVars, raised>>
    /\ UNCHANGED <<jobs_collection, context, has_resume, n_results,
                   min_match_score,
                   total_jobs, all_job_results, pre_filtered_jobs,
                   stats_calls, embed_calls, search_calls>>

\* line 186: re.sub(header, '### Job #rank:', section, count=1)
ReSub(section, rank) ==
    LET hits == {k \in 1..Len(section) : IsSubHeader(section[k])}
    IN  IF hits = {} THEN section
        ELSE LET k == CHOOSE x \in hits : \A y \in hits : x <= y
             IN  [section EXCEPT ![k] = Hdr(rank)]

\* lines 182-187: ranked_sections
ranked_sections(matched) == [r \in 1..Len(matched) |-> ReSub(matched[r].section, r)]

RECURSIVE Join(_)
Join(parts) == IF parts = <<>> THEN <<>> ELSE Head(parts) \o Join(Tail(parts))

\* an empty accepted list is reported through the error response
AssembleError ==
    /\ pc = "assemble"
    /\ IF matched_jobs = <<>>
       THEN result' = format_error_response("no_matches")
       ELSE result' = Outcome("matches",
                              <<Tok("banner", Len(matched_jobs))>>
                                  \o Join(ranked_sections(matched_jobs)),
                              "", jobs_checked)
    /\ pc' = "done"
    /\ UNCHANGED <<sideVars, raised>>
    /\ UNCHANGED <<jobs_collection, context, has_resume, n_results,
                   min_match_score,
                   total_jobs, all_job_results, pre_filtered_jobs,
                   matched_jobs, jobs_checked, job_idx, llm_calls, llm_log,
                   stats_calls, embed_calls, search_calls>>

\* lines 172-193: the 'none above threshold' message, or the banner
\* followed by the renumbered sections
final_response(matched, checked) ==
    IF matched = <<>>
    THEN Outcome("none_above", <<>>, "", checked)
    ELSE Outcome("matches",
                 <<Tok("banner", Len(matched))>> \o Join(ranked_sections(matched)),
                 "", checked)

\* lines 172-193: the response is assembled and returned
Assemble ==
    /\ pc = "assemble"
    /\ result' = final_response(matched_jobs, jobs_checked)
    /\ pc' = "done"
    /\ UNCHANGED <<sideVars, raised>>
    /\ UNCHANGED <<jobs_collection, context, has_resume, n_results,
                   min_match_score,
                   total_jobs, all_job_results, pre_filtered_jobs,
                   matched_jobs, jobs_checked, job_idx, llm_calls, llm_log,
                   stats_calls, embed_calls, search_calls>>

\* process() has returned; its locals are gone and the agent is ready
\* for the next call
Return ==
    /\ pc = "done"
    /\ pc' = "idle"
    /\ context' = NoContext
    /\ has_resume' = FALSE
    /\ n_results' = DEFAULT_N_RESULTS
    /\ min_match_score' = MIN_JOB_MATCH_SCORE
    /\ total_jobs' = 0
    /\ all_job_results' = <<>>
    /\ pre_filtered_jobs' = <<>>
    /\ matched_jobs' = <<>>
    /\ jobs_checked' = 0
    /\ job_idx' = 1
    /\ result' = NoResult
    /\ llm_calls' = <<>>
    /\ llm_log' = <<>>
    /\ stats_calls' = 0
    /\ embed_calls' = 0
    /\ search_calls' = 0
    /\ raised' = ""
    /\ UNCHANGED <<jobs_collection, sideVars>>

Next ==
    \/ \E ctx \in Contexts, n \in 0..MaxResults, m \in Thresholds :
           ProcessCall(ctx, n, m)
    \/ GetStats
    \/ RetrieveOk
    \/ \E e \in RetrievalErrors : RetrieveFail(e)
    \/ LoopExhausted
    \/ LoopBreak
    \/ \E i \in 1..Len(pre_filtered_jobs) :
           \E text \in Responses(pre_filtered_jobs[i].id) : ScoreJob(FALSE, text)
    \/ \E e \in CompletionErrors : ScoreJob(TRUE, e)
    \/ Assemble
    \/ Return

Spec == Init /\ [][Next]_vars

\* --------------------------------------- corpora at the tier boundaries
TierSizes == {0, 1, 50, 51, 500, 501, 5000, 5001}

TierInit ==
    /\ jobs_collection \in {1..n : n \in TierSizes}
    /\ ProcInit
    /\ SideIdle

SpecTier == TierInit /\ [][Next]_vars

\* ------------------------------ two calls on the one cached agent instance
\* initialize_agents (streamlit_app.py) is cached with st.cache_resource:
\* every session gets the same JobMatcherAgent, so two sessions may be
\* inside process() at once.  Both calls are taken at the scoring loop,
\* over the pool the retriever gave them; a step is one loop iteration.
ConcPool == <<FormatHit(0, 1, 65), FormatHit(1, 2, 65)>>

ConcResults == {1, 2}

\* what the completion service may do for a request about job id: raise,
\* or return prose without header or score, a section without a score,
\* or a section with a score
ConcAnswers(id) ==
    {[failed |-> TRUE, error |-> e, text |-> <<>>] : e \in CompletionErrors}
    \cup {[failed |-> FALSE, error |-> "", text |-> t] :
              t \in {<<Title(id), Txt>>,
                     <<Hdr(1), Title(id), Txt>>,
                     <<Hdr(1), Title(id), Tok("boldIn", 90)>>}}

\* BaseAgent.generate_response on the service's answer
ServiceResponse(answer) ==
    IF answer.failed THEN generate_response(TRUE, answer.error)
    ELSE generate_response(FALSE, answer.text)

ConcScripts ==
    {<<a, b>> : a \in ConcAnswers(ConcPool[1].id), b \in ConcAnswers(ConcPool[2].id)}

ConcInit ==
    /\ jobs_collection = {ConcPool[i].id : i \in 1..Len(ConcPool)}
    /\ ProcInit
    /\ ParseIdle /\ QueryIdle /\ RetrIdle
    /\ RouteIdle /\ UploadIdle /\ BatchIdle /\ ChunkIdle
    /\ c_pc = [c \in Calls |-> "idle"]
    /\ c_n = [c \in Calls |-> DEFAULT_N_RESULTS]
    /\ c_min = [c \in Calls |-> MIN_JOB_MATCH_SCORE]
    /\ c_script = [c \in Calls |-> <<>>]
    /\ c_matched = [c \in Calls |-> <<>>]
    /\ c_checked = [c \in Calls |-> 0]
    /\ c_idx = [c \in Calls |-> 1]
    /\ c_result = [c \in Calls |-> NoResult]
    /\ c_requests = <<>>

\* lines 54-112: call c starts with its own context and reaches the loop
\* with fresh locals (matched_jobs = [], jobs_checked = 0)
CStart(c, n, m, script) ==
    /\ c_pc[c] = "idle"
    /\ c_pc' = [c_pc EXCEPT ![c] = "loop"]
    /\ c_n' = [c_n EXCEPT ![c] = n]
    /\ c_min' = [c_min EXCEPT ![c] = m]
    /\ c_script' = [c_script EXCEPT ![c] = script]
    /\ c_matched' = [c_matched EXCEPT ![c] = <<>>]
    /\ c_checked' = [c_checked EXCEPT ![c] = 0]
    /\ c_idx' = [c_idx EXCEPT ![c] = 1]
    /\ UNCHANGED <<c_result, c_requests>>
    /\ UNCHANGED <<procVars, parseVars, queryVars, retrVars, routeVars,
                   uploadVars, batchVars, chunkVars>>

\* lines 152-166 on the locals of one call: the accepted list after the
\* response, and whether the loop breaks
loop_step(job, response, matched, n, m) ==
    LET job_scored == parse_job_scores_from_response(response, <<job>>, 1)
    IN  IF Accepts(job_scored, m)
        THEN [matched |-> AppendMatch(matched, job_scored[1]),
              stop |-> EnoughMatches(AppendMatch(matched, job_scored[1]), n)]
        ELSE [matched |-> matched, stop |-> FALSE]

\* matched_jobs kept on the instance: every call appends to the one list
CScoreJobShared(c) ==
    /\ c_pc[c] = "loop"
    /\ c_idx[c] <= Len(ConcPool)
    /\ ~EnoughMatches(c_matched[c], c_n[c])
    /\ LET job == ConcPool[c_idx[c]]
           answer == c_script[c][c_idx[c]]
           response == ServiceResponse(answer)
           st == loop_step(job, response, c_matched[c], c_n[c], c_min[c])
       IN  /\ c_checked' = [c_checked EXCEPT ![c] = @ + 1]
           /\ c_requests' = Append(c_requests, c)
           /\ c_matched' = [d \in Calls |-> st.matched]
           /\ c_pc' = [c_pc EXCEPT ![c] = IF st.stop THEN "assemble" ELSE "loop"]
           /\ c_idx' = [c_idx EXCEPT ![c] = IF st.stop THEN @ ELSE @ + 1]
    /\ UNCHANGED <<c_n, c_min, c_script, c_result>>
    /\ UNCHANGED <<procVars, parseVars, queryVars, retrVars, routeVars,
                   uploadVars, batchVars, chunkVars>>

\* failed completion calls left out of jobs_checked
CScoreJobUncounted(c) ==
    /\ c_pc[c] = "loop"
    /\ c_idx[c] <= Len(ConcPool)
    /\ ~EnoughMatches(c_matched[c], c_n[c])
    /\ LET job == ConcPool[c_idx[c]]
           answer == c_script[c][c_idx[c]]
           response == ServiceResponse(answer)
           st == loop_step(job, response, c_matched[c], c_n[c], c_min[c])
       IN  /\ c_checked' = [c_checked EXCEPT ![c] = IF answer.failed THEN @ ELSE @ + 1]
           /\ c_requests' = Append(c_requests, c)
           /\ c_matched' = [c_matched EXCEPT ![c] = st.matched]
           /\ c_pc' = [c_pc EXCEPT ![c] = IF st.stop THEN "assemble" ELSE "loop"]
           /\ c_idx' = [c_idx EXCEPT ![c] = IF st.stop THEN @ ELSE @ + 1]
    /\ UNCHANGED <<c_n, c_min, c_script, c_result>>
    /\ UNCHANGED <<procVars, parseVars, queryVars, retrVars, routeVars,
                   uploadVars, batchVars, chunkVars>>

\* lines 118-170: one loop iteration of call c
CScoreJob(c) ==
    /\ c_pc[c] = "loop"
    /\ c_idx[c] <= Len(ConcPool)
    /\ ~EnoughMatches(c_matched[c], c_n[c])
    /\ LET job == ConcPool[c_idx[c]]
           answer == c_script[c][c_idx[c]]
           response == ServiceResponse(answer)
           st == loop_step(job, response, c_matched[c], c_n[c], c_min[c])
       IN  /\ c_checked' = [c_checked EXCEPT ![c] = @ + 1]
           /\ c_requests' = Append(c_requests, c)
           /\ c_matched' = [c_matched EXCEPT ![c] = st.matched]
           /\ c_pc' = [c_pc EXCEPT ![c] = IF st.stop THEN "assemble" ELSE "loop"]
           /\ c_idx' = [c_idx EXCEPT ![c] = IF st.stop THEN @ ELSE @ + 1]
    /\ UNCHANGED <<c_n, c_min, c_script, c_result>>
    /\ UNCHANGED <<procVars, parseVars, queryVars, retrVars, routeVars,
                   uploadVars, batchVars, chunkVars>>

\* the loop of call c runs out of candidates, or breaks at line 119
CLoopEnd(c) ==
    /\ c_pc[c] = "loop"
    /\ c_idx[c] > Len(ConcPool) \/ EnoughMatches(c_matched[c], c_n[c])
    /\ c_pc' = [c_pc EXCEPT ![c] = "assemble"]
    /\ UNCHANGED <<c_n, c_min, c_script, c_matched, c_checked, c_idx, c_result,
                   c_requests>>
    /\ UNCHANGED <<procVars, parseVars, queryVars, retrVars, routeVars,
                   uploadVars, batchVars, chunkVars>>

\* lines 172-193: call c returns
CAssemble(c) ==
    /\ c_pc[c] = "assemble"
    /\ c_result' = [c_result EXCEPT ![c] = final_response(c_matched[c], c_checked[c])]
    /\ c_pc' = [c_pc EXCEPT ![c] = "done"]
    /\ UNCHANGED <<c_n, c_min, c_script, c_matched, c_checked, c_idx,
                   c_requests>>
    /\ UNCHANGED <<procVars, parseVars, queryVars, retrVars, routeVars,
                   uploadVars, batchVars, chunkVars>>

ConcNext ==
    \/ \E c \in Calls, n \in ConcResults, m \in Thresholds, script \in ConcScripts :
           CStart(c, n, m, script)
    \/ \E c \in Calls : CScoreJob(c)
    \/ \E c \in Calls : CLoopEnd(c)
    \/ \E c \in Calls : CAssemble(c)

SpecConc == ConcInit /\ [][ConcNext]_vars

\* ------------------------------------------- the score parser on its own
MaxTextLen == 3       \* longest response text handed to the parser
MaxBatch == 2         \* largest job_results batch handed to the parser

ParsePercents == {0, 45, 100}

ParseTokens ==
    {Hdr(1), Hdr(2), Txt} \cup {Tok(k, p) : k \in ScoreKinds, p \in ParsePercents}

ParseTexts == UNION {[1..len -> ParseTokens] : len \in 0..MaxTextLen}

ParseBatches == {[i \in 1..len |-> FormatHit(i - 1, i, 65)] : len \in 1..MaxBatch}

ParseInit ==
    /\ jobs_collection = {}
    /\ ProcInit
    /\ p_pc = "call"
    /\ p_response \in ParseTexts
    /\ p_job_results \in ParseBatches
    /\ p_start_job_num \in 1..MaxBatch
    /\ p_scored = <<>>
    /\ ConcIdle /\ QueryIdle /\ RetrIdle
    /\ RouteIdle /\ UploadIdle /\ BatchIdle /\ ChunkIdle

\* _parse_job_scores_from_response is called and returns
ParseCall ==
    /\ p_pc = "call"
    /\ p_scored' = parse_job_scores_from_response(p_response, p_job_results, p_start_job_num)
    /\ p_pc' = "returned"
    /\ UNCHANGED <<p_response, p_job_results, p_start_job_num>>
    /\ UNCHANGED <<procVars, concVars, queryVars, retrVars, routeVars,
                   uploadVars, batchVars, chunkVars>>

ParseNext == ParseCall

SpecParse == ParseInit /\ [][ParseNext]_vars

\* ------------------------------------------- the search query on its own
\* A text is a sequence of runs of characters: a run of n characters
\* that are not whitespace ("w"), a run of n whitespace characters ("s":
\* blanks, tabs, line breaks), or one job title the title pattern matches
\* ("t", with its words and the single blanks between them).
MaxWords == 3         \* longest experience section, in runs
MaxEvals == 2         \* evaluations of the function per run of the program

JobTitles == {"Software Engineer", "Data Scientist"}

TitleLen(name) == IF name = "Software Engineer" THEN 17 ELSE 14

Word(n) == [kind |-> "w", n |-> n, name |-> ""]

Space(n) == [kind |-> "s", n |-> n, name |-> ""]

TitleRun(name) == [kind |-> "t", n |-> TitleLen(name), name |-> name]

QueryRuns == {Word(1), Word(299), Space(2)} \cup {TitleRun(t) : t \in JobTitles}

\* str.strip() leaves no whitespace at either end
IsStripped(text) ==
    text = <<>> \/ (text[1].kind # "s" /\ text[Len(text)].kind # "s")

\* a resume: the text each section pattern captures, stripped (empty when
\* the section is absent), and the text of a resume without sections
Resumes ==
    [summary : {<<>>, <<Word(1)>>, <<Word(199), Space(3), Word(5)>>},
     skills : {<<>>, <<Word(2500)>>},
     experience : {t \in UNION {[1..len -> QueryRuns] : len \in 0..MaxWords} :
                       IsStripped(t)},
     body : {<<>>, <<Space(2), Word(1500)>>}]

\* the orders in which a set of strings is iterated: the order follows
\* the string hashes, which are salted anew in every run of the program
HashOrders ==
    {o \in [1..Cardinality(JobTitles) -> JobTitles] :
         \A i, j \in 1..Cardinality(JobTitles) : o[i] = o[j] => i = j}

\* len(text)
RECURSIVE Chars(_)
Chars(text) == IF text = <<>> THEN 0 ELSE Head(text).n + Chars(Tail(text))

\* text[:n]: the first n characters; the run the cut falls in is shortened
RECURSIVE Slice(_, _)
Slice(text, n) ==
    IF text = <<>> \/ n <= 0 THEN <<>>
    ELSE IF Head(text).n <= n
         THEN <<Head(text)>> \o Slice(Tail(text), n - Head(text).n)
         ELSE <<[Head(text) EXCEPT !.n = n]>>

\* line 241: re.findall(title pattern, exp_text)
FindTitles(text) == SelectSeq(text, LAMBDA r : r.kind = "t")

\* " ".join(parts) for a list of texts
RECURSIVE JoinBlank(_)
JoinBlank(parts) ==
    IF parts = <<>> THEN <<>>
    ELSE IF Len(parts) = 1 THEN Head(parts)
    ELSE Head(parts) \o <<Space(1)>> \o JoinBlank(Tail(parts))

\* line 243: " ".join(set(titles)), the set iterated in hash order
SetJoin(titles, order) ==
    LET present == SelectSeq(order, LAMBDA t : \E i \in 1..Len(titles) : titles[i].name = t)
    IN  JoinBlank([k \in 1..Len(present) |-> <<TitleRun(present[k])>>])

\* the whitespace runs at the head of a text dropped
RECURSIVE DropSpace(_)
DropSpace(text) ==
    IF text = <<>> \/ Head(text).kind # "s" THEN text ELSE DropSpace(Tail(text))

\* re.sub(r'\s+', ' ', text): every stretch of whitespace becomes one blank
RECURSIVE Collapse(_)
Collapse(text) ==
    IF text = <<>> THEN <<>>
    ELSE IF Head(text).kind = "s"
         THEN <<Space(1)>> \o Collapse(DropSpace(text))
         ELSE <<Head(text)>> \o Collapse(Tail(text))

\* str.strip()
Strip(text) ==
    LET a == IF text # <<>> /\ text[1].kind = "s" THEN 2 ELSE 1
        b == IF text # <<>> /\ text[Len(text)].kind = "s" THEN Len(text) - 1 ELSE Len(text)
    IN  SubSeq(text, a, b)

\* whitespace collapsed but the ends left as they are
NormalizeUnstripped(text) == Collapse(text)

\* line 256: re.sub(r'\s+', ' ', search_query).strip()
Normalize(text) == Strip(Collapse(text))

\* _extract_key_resume_info(resume_text) in a run with the given hash order
extract_key_resume_info(resume, order) ==
    LET job_titles == FindTitles(resume.experience)
        parts ==
            (IF resume.summary # <<>> THEN <<Slice(resume.summary, 200)>> ELSE <<>>)
            \o (IF resume.skills # <<>> THEN <<Slice(resume.skills, 300)>> ELSE <<>>)
            \o (IF resume.experience # <<>>
                THEN (IF job_titles # <<>>
                      THEN <<SetJoin(SubSeq(job_titles, 1, Min(5, Len(job_titles))), order)>>
                      ELSE <<>>)
                     \o <<Slice(resume.experience, 300)>>
                ELSE <<>>)
        query_parts == IF parts = <<>> THEN <<Slice(resume.body, 1000)>> ELSE parts
        search_query == Normalize(JoinBlank(query_parts))
    IN  IF Chars(search_query) > 2000 THEN Slice(search_query, 2000) ELSE search_query

QueryInit ==
    /\ jobs_collection = {}
    /\ ProcInit
    /\ ParseIdle /\ ConcIdle /\ RetrIdle
    /\ RouteIdle /\ UploadIdle /\ BatchIdle /\ ChunkIdle
    /\ q_resume \in Resumes
    /\ q_hash \in [Runs -> HashOrders]
    /\ q_out = [r \in Runs |-> <<>>]

\* the function is evaluated once more in run r on the resume
Evaluate(r) ==
    /\ Len(q_out[r]) < MaxEvals
    /\ q_out' = [q_out EXCEPT ![r] = Append(@, extract_key_resume_info(q_resume, q_hash[r]))]
    /\ UNCHANGED <<q_resume, q_hash>>
    /\ UNCHANGED <<procVars, parseVars, concVars, retrVars, routeVars,
                   uploadVars, batchVars, chunkVars>>

QueryNext == \E r \in Runs : Evaluate(r)

SpecQuery == QueryInit /\ [][QueryNext]_vars

\* --------------------------------------------- retrieve_jobs on its own
\* what the index answers to one query: up to MaxJobs hits with distinct
\* ids, in ascending order of distance. The jobs collection is created
\* with the cosine space: the distance of a hit is 1 - cos, between 0 and
\* 2 (200 hundredths)
IndexHits ==
    UNION {{[i \in 1..len |-> <<i, d[i]>>] :
               d \in {e \in [1..len -> {0, 65, 66, 100, 101, 200}] :
                          \A i \in 1..len : i < len => e[i] <= e[i + 1]}} :
           len \in 0..MaxJobs}

RetrInit ==
    /\ jobs_collection = {}
    /\ ProcInit
    /\ ParseIdle /\ ConcIdle /\ QueryIdle
    /\ RouteIdle /\ UploadIdle /\ BatchIdle /\ ChunkIdle
    /\ r_pc = "call"
    /\ r_hits \in IndexHits
    /\ r_jobs = <<>>

\* retrieve_jobs is called and returns
RetrieveCall ==
    /\ r_pc = "call"
    /\ r_jobs' = retrieve_jobs(r_hits)
    /\ r_pc' = "returned"
    /\ UNCHANGED <<r_hits>>
    /\ UNCHANGED <<procVars, parseVars, concVars, queryVars, routeVars,
                   uploadVars, batchVars, chunkVars>>

SpecRetrieve == RetrInit /\ [][RetrieveCall]_vars

\* ------------------------------------------------ routing on its own
\* SupervisorAgent.process and the dispatch of process_query. Texts are
\* sequences of characters, so that `phrase in query_lower` is the
\* substring test of the code.
MaxQueryWords == 4

Blank == <<" ">>

RECURSIVE JoinWords(_)
\* the words joined with single blanks
JoinWords(ws) ==
    IF Len(ws) = 0 THEN <<>>
    ELSE IF Len(ws) = 1 THEN ws[1]
    ELSE ws[1] \o Blank \o JoinWords(Tail(ws))

\* the queries: one to MaxQueryWords words, and the one-word queries typed
\* with blanks around them
Queries ==
    LET vocabulary ==
            {<<"F", "i", "n", "d">>,
             <<"j", "o", "b", "s">>,
             <<"m", "a", "t", "c", "h", "i", "n", "g">>,
             <<"f", "o", "r">>,
             <<"m", "e">>,
             <<"r", "e", "s", "u", "m", "e">>,
             <<"p", "i", "z", "z", "a">>}
        plain == {JoinWords(ws) : ws \in UNION {[1..n -> vocabulary] : n \in 1..MaxQueryWords}}
    IN  plain \cup {Blank \o w \o Blank : w \in vocabulary}

\* str.lower() on the letters the texts use
LowerText(text) ==
    [i \in 1..Len(text) |->
        CASE text[i] = "F" -> "f"
          [] text[i] = "R" -> "r"
          [] text[i] = "C" -> "c"
          [] text[i] = "I" -> "i"
          [] OTHER -> text[i]]

IsWhite(c) == c \in {" ", "\n"}

RECURSIVE StripLeft(_)
StripLeft(text) ==
    IF text # <<>> /\ IsWhite(text[1]) THEN StripLeft(Tail(text)) ELSE text

RECURSIVE StripRight(_)
StripRight(text) ==
    IF text # <<>> /\ IsWhite(text[Len(text)])
    THEN StripRight(SubSeq(text, 1, Len(text) - 1))
    ELSE text

\* str.strip()
StripText(text) == StripRight(StripLeft(text))

\* len(query.split()): the number of maximal runs without whitespace
SplitCount(text) ==
    Cardinality({i \in 1..Len(text) :
                    /\ ~IsWhite(text[i])
                    /\ (i = 1 \/ IsWhite(text[i - 1]))})

\* phrase in text
Contains(text, phrase) ==
    \E i \in 1..(Len(text) - Len(phrase) + 1) :
        SubSeq(text, i, i + Len(phrase) - 1) = phrase

\* any(phrase in text for phrase in phrases)
ContainsAny(text, phrases) == \E phrase \in phrases : Contains(text, phrase)

\* line 48
greetings ==
    {<<"h", "i">>,
     <<"h", "e", "l", "l", "o">>,
     <<"h", "e", "y">>,
     <<"g", "o", "o", "d", " ", "m", "o", "r", "n", "i", "n", "g">>,
     <<"g", "o", "o", "d", " ", "a", "f", "t", "e", "r", "n", "o", "o", "n">>,
     <<"g", "o", "o", "d", " ", "e", "v", "e", "n", "i", "n", "g">>,
     <<"h", "o", "w", "d", "y">>,
     <<"g", "r", "e", "e", "t", "i", "n", "g", "s">>}

\* line 49
casual ==
    {<<"h", "o", "w", " ", "a", "r", "e", " ", "y", "o", "u">>,
     <<"w", "h", "a", "t", "s", " ", "u", "p">>,
     <<"w", "h", "a", "t", "'", "s", " ", "u", "p">>,
     <<"t", "h", "a", "n", "k", "s">>,
     <<"t", "h", "a", "n", "k", " ", "y", "o", "u">>,
     <<"b", "y", "e">>,
     <<"g", "o", "o", "d", "b", "y", "e">>,
     <<"o", "k">>,
     <<"o", "k", "a", "y">>,
     <<"y", "e", "s">>,
     <<"n", "o">>}

\* line 58
job_phrases ==
    {<<"f", "i", "n", "d", " ", "j", "o", "b">>,
     <<"f", "i", "n", "d", " ", "m", "e", " ", "j", "o", "b">>,
     <<"s", "e", "a", "r", "c", "h", " ", "j", "o", "b">>,
     <<"m", "a", "t", "c", "h", " ", "j", "o", "b">>,
     <<"m", "a", "t", "c", "h", "i", "n", "g", " ", "j", "o", "b">>,
     <<"s", "h", "o", "w", " ", "j", "o", "b">>,
     <<"g", "e", "t", " ", "j", "o", "b">>,
     <<"j", "o", "b", "s", " ", "f", "o", "r">>,
     <<"j", "o", "b", "s", " ", "t", "h", "a", "t", " ", "m", "a", "t", "c", "h">>}

\* line 62
resume_phrases ==
    {<<"r", "e", "v", "i", "e", "w", " ", "r", "e", "s", "u", "m", "e">>,
     <<"c", "h", "e", "c", "k", " ", "r", "e", "s", "u", "m", "e">>,
     <<"i", "m", "p", "r", "o", "v", "e", " ", "r", "e", "s", "u", "m", "e">>,
     <<"f", "e", "e", "d", "b", "a", "c", "k", " ", "o", "n", " ", "r", "e", "s", "u", "m", "e">>,
     <<"r", "e", "s", "u", "m", "e", " ", "r", "e", "v", "i", "e", "w">>,
     <<"r", "e", "s", "u", "m", "e", " ", "f", "e", "e", "d", "b", "a", "c", "k">>}

\* line 66
interview_phrases ==
    {<<"i", "n", "t", "e", "r", "v", "i", "e", "w", " ", "p", "r", "e", "p">>,
     <<"i", "n", "t", "e", "r", "v", "i", "e", "w", " ", "q", "u", "e", "s", "t", "i", "o", "n">>,
     <<"p", "r", "e", "p", "a", "r", "e", " ", "i", "n", "t", "e", "r", "v", "i", "e", "w">>,
     <<"i", "n", "t", "e", "r", "v", "i", "e", "w", " ", "h", "e", "l", "p">>,
     <<"p", "r", "a", "c", "t", "i", "c", "e", " ", "i", "n", "t", "e", "r", "v", "i", "e", "w">>}

\* line 76
job_words ==
    {<<"j", "o", "b">>,
     <<"j", "o", "b", "s">>,
     <<"p", "o", "s", "i", "t", "i", "o", "n">>,
     <<"p", "o", "s", "i", "t", "i", "o", "n", "s">>,
     <<"r", "o", "l", "e">>,
     <<"r", "o", "l", "e", "s">>,
     <<"o", "p", "e", "n", "i", "n", "g">>,
     <<"v", "a", "c", "a", "n", "c", "y">>}

\* lines 44-77: the keyword cascade; "none" when no keyword decides
KeywordRoute(query) ==
    LET query_lower == StripText(LowerText(query))
        short == SplitCount(query) <= 3
    IN  IF short /\ ContainsAny(query_lower, greetings) THEN "general"
        ELSE IF short /\ ContainsAny(query_lower, casual) THEN "general"
        ELSE IF ContainsAny(query_lower, job_phrases) THEN "job_matcher"
        ELSE IF ContainsAny(query_lower, resume_phrases) THEN "resume_coach"
        ELSE IF ContainsAny(query_lower, interview_phrases) THEN "interview_prep"
        ELSE IF /\ Contains(query_lower, <<"r", "e", "s", "u", "m", "e">>)
                /\ ~Contains(query_lower, <<"j", "o", "b">>)
             THEN "resume_coach"
        ELSE IF Contains(query_lower, <<"i", "n", "t", "e", "r", "v", "i", "e", "w">>) THEN "interview_prep"
        ELSE IF ContainsAny(query_lower, job_words) THEN "job_matcher"
        ELSE "none"

\* self.available_agents + ['general'], with the text of each name
AgentNames ==
    <<[name |-> "job_matcher", text |-> <<"j", "o", "b", "_", "m", "a", "t", "c", "h", "e", "r">>],
      [name |-> "resume_coach", text |-> <<"r", "e", "s", "u", "m", "e", "_", "c", "o", "a", "c", "h">>],
      [name |-> "interview_prep", text |-> <<"i", "n", "t", "e", "r", "v", "i", "e", "w", "_", "p", "r", "e", "p">>],
      [name |-> "general", text |-> <<"g", "e", "n", "e", "r", "a", "l">>]>>

\* str(e) of a failed completion call
RoutingErrors ==
    {<<"C", "o", "n", "n", "e", "c", "t", "i", "o", "n", " ", "e", "r", "r", "o", "r", ".">>,
     <<"R", "a", "t", "e", " ", "l", "i", "m", "i", "t", " ", "r", "e", "a", "c", "h", "e", "d", " ", "f", "o", "r", " ", "r", "e", "q", "u", "e", "s", "t", "s">>}

\* base_agent.py line 98: the text generate_response returns on failure
RoutingApology(e) ==
    <<"I", " ", "a", "p", "o", "l", "o", "g", "i", "z", "e", ",", " ", "b", "u", "t", " ", "I", " ", "e", "n", "c", "o", "u", "n", "t", "e", "r", "e", "d", " ", "a", "n", " ", "e", "r", "r", "o", "r", " ", "p", "r", "o", "c", "e", "s", "s", "i", "n", "g", " ", "y", "o", "u", "r", " ", "r", "e", "q", "u", "e", "s", "t", ":", " ">> \o e

\* the outcomes of the fallback call
RoutingOutcomes ==
    LET answers ==
            {<<"j", "o", "b", "_", "m", "a", "t", "c", "h", "e", "r">>,
             <<"R", "e", "s", "u", "m", "e", "_", "C", "o", "a", "c", "h", "\n">>,
             <<"i", "n", "t", "e", "r", "v", "i", "e", "w", "_", "p", "r", "e", "p">>,
             <<"g", "e", "n", "e", "r", "a", "l">>,
             <<"j", "o", "b", "_", "m", "a", "t", "c", "h", "e", "r", " ", "o", "r", " ", "r", "e", "s", "u", "m", "e", "_", "c", "o", "a", "c", "h">>,
             <<"u", "n", "s", "u", "r", "e">>,
             <<>>}
    IN  {[failed |-> FALSE, text |-> t] : t \in answers}
            \cup {[failed |-> TRUE, text |-> e] : e \in RoutingErrors}

\* BaseAgent.generate_response as the supervisor sees it
RoutingResponse(outcome) ==
    IF outcome.failed THEN RoutingApology(outcome.text) ELSE outcome.text

\* the agent of a response is the name it was given, unchecked
NamedAgentTrusting(response) == "job_matcher"

\* lines 98-107: the first agent name the answer contains, else 'general'
NamedAgent(response) ==
    LET agent_name == LowerText(StripText(response))
        hits == {i \in 1..Len(AgentNames) : Contains(agent_name, AgentNames[i].text)}
    IN  IF hits = {} THEN "general"
        ELSE AgentNames[CHOOSE i \in hits : \A j \in hits : i <= j].name

RouteInit ==
    /\ jobs_collection = {}
    /\ ProcInit
    /\ ParseIdle /\ ConcIdle /\ QueryIdle /\ RetrIdle
    /\ UploadIdle /\ BatchIdle /\ ChunkIdle
    /\ s_pc = "call"
    /\ s_query \in Queries
    /\ s_llm = <<>>
    /\ s_route = ""
    /\ s_llm_calls = 0
    /\ s_agent_calls = <<>>

\* SupervisorAgent.process, lines 44-77: the keywords decide, or the
\* fallback is needed
RouteByKeyword ==
    /\ s_pc = "call"
    /\ LET route == KeywordRoute(s_query)
       IN  IF route # "none"
           THEN /\ s_route' = route
                /\ s_pc' = "routed"
           ELSE /\ s_route' = s_route
                /\ s_pc' = "fallback"
    /\ UNCHANGED <<s_query, s_llm, s_llm_calls, s_agent_calls>>
    /\ UNCHANGED <<procVars, parseVars, concVars, queryVars, retrVars,
                   uploadVars, batchVars, chunkVars>>

\* lines 80-107: the fallback completion call and the name read from it
RouteByLLM(outcome) ==
    /\ s_pc = "fallback"
    /\ s_llm_calls' = s_llm_calls + 1
    /\ s_llm' = RoutingResponse(outcome)
    /\ s_route' = NamedAgent(s_llm')
    /\ s_pc' = "routed"
    /\ UNCHANGED <<s_query, s_agent_calls>>
    /\ UNCHANGED <<procVars, parseVars, concVars, queryVars, retrVars,
                   uploadVars, batchVars, chunkVars>>

\* process_query, lines 229-325: 'general' is answered in place, a
\* specialized agent is called by its name
Dispatch ==
    /\ s_pc = "routed"
    /\ s_agent_calls' =
           IF s_route \in {"job_matcher", "resume_coach", "interview_prep"}
           THEN Append(s_agent_calls, s_route)
           ELSE s_agent_calls
    /\ s_pc' = "answered"
    /\ UNCHANGED <<s_query, s_llm, s_route, s_llm_calls>>
    /\ UNCHANGED <<procVars, parseVars, concVars, queryVars, retrVars,
                   uploadVars, batchVars, chunkVars>>

RouteNext ==
    \/ RouteByKeyword
    \/ \E outcome \in RoutingOutcomes : RouteByLLM(outcome)
    \/ Dispatch

SpecRoute == RouteInit /\ [][RouteNext]_vars


\* ------------------------------------------- resume uploads on their own
\* parse_resume (streamlit_app.py) run by two sessions of the one server
\* process: every session's script runs in its own thread, in the same
\* working directory, so the relative path temp_resume.<ext> is shared.

\* the text of the resume session x uploads
ResumeOf(x) == IF x = 1 THEN "resume_1" ELSE "resume_2"

\* line 205: temp_path, named by the extension only; the files of the
\* working directory are indexed by it
temp_path(upload) == upload.ext

UploadInit ==
    /\ jobs_collection = {}
    /\ ProcInit
    /\ ParseIdle /\ ConcIdle /\ QueryIdle /\ RetrIdle
    /\ RouteIdle /\ BatchIdle /\ ChunkIdle
    /\ u_pc = [x \in Sessions |-> "call"]
    /\ u_upload \in {f \in [Sessions -> [ext : Extensions, text : {ResumeOf(x) : x \in Sessions}]] :
                        \A x \in Sessions : f[x].text = ResumeOf(x)}
    /\ u_file = [e \in Extensions |-> "absent"]
    /\ u_parsed = [x \in Sessions |-> ""]
    /\ u_result = [x \in Sessions |-> ""]

\* lines 205-207: the upload is written to temp_path, replacing what is
\* there
SaveUpload(x) ==
    /\ u_pc[x] = "call"
    /\ u_file' = [u_file EXCEPT ![temp_path(u_upload[x])] = u_upload[x].text]
    /\ u_pc' = [u_pc EXCEPT ![x] = "saved"]
    /\ UNCHANGED <<u_upload, u_parsed, u_result>>
    /\ UNCHANGED <<procVars, parseVars, concVars, queryVars, retrVars,
                   routeVars, batchVars, chunkVars>>

\* line 210: ResumeParser.parse_resume(temp_path) reads the file that is
\* at the path now; a missing file raises and the handler (lines 217-219)
\* reports the error and returns None
ParseFile(x) ==
    /\ u_pc[x] = "saved"
    /\ IF u_file[temp_path(u_upload[x])] = "absent"
       THEN /\ u_parsed' = u_parsed
            /\ u_result' = [u_result EXCEPT ![x] = "error"]
            /\ u_pc' = [u_pc EXCEPT ![x] = "done"]
       ELSE /\ u_parsed' = [u_parsed EXCEPT ![x] = u_file[temp_path(u_upload[x])]]
            /\ u_result' = u_result
            /\ u_pc' = [u_pc EXCEPT ![x] = "parsed"]
    /\ UNCHANGED <<u_upload, u_file>>
    /\ UNCHANGED <<procVars, parseVars, concVars, queryVars, retrVars,
                   routeVars, batchVars, chunkVars>>

\* lines 213-215: Path(temp_path).unlink() and the return of full_text;
\* unlink of a missing file raises and the handler returns None
UnlinkAndReturn(x) ==
    /\ u_pc[x] = "parsed"
    /\ IF u_file[temp_path(u_upload[x])] = "absent"
       THEN /\ u_file' = u_file
            /\ u_result' = [u_result EXCEPT ![x] = "error"]
       ELSE /\ u_file' = [u_file EXCEPT ![temp_path(u_upload[x])] = "absent"]
            /\ u_result' = [u_result EXCEPT ![x] = u_parsed[x]]
    /\ u_pc' = [u_pc EXCEPT ![x] = "done"]
    /\ UNCHANGED <<u_upload, u_parsed>>
    /\ UNCHANGED <<procVars, parseVars, concVars, queryVars, retrVars,
                   routeVars, batchVars, chunkVars>>

UploadNext ==
    \E x \in Sessions : SaveUpload(x) \/ ParseFile(x) \/ UnlinkAndReturn(x)

SpecUpload == UploadInit /\ [][UploadNext]_vars

\* ------------------------------------------- add_jobs_batch on its own
MaxBatchJobs == 3

\* the batches: up to MaxBatchJobs jobs with distinct ids, each with a
\* description that is empty, whitespace only, or one of two texts
BatchJobs ==
    LET descriptions == {<<>>, <<" ", " ">>, <<"p", "y">>, <<"g", "o">>}
    IN  UNION {{[i \in 1..n |-> [id |-> i, description |-> d[i], metadata |-> <<"meta", i>>]] :
                   d \in [1..n -> descriptions]} :
               n \in 0..MaxBatchJobs}

\* the embedding of a text, as the service computes it from the text
Embedding(text) == <<"vector", text>>

\* embedding_generator.py line 76: the texts that are not empty after
\* strip()
valid_texts(texts) == SelectSeq(texts, LAMBDA text : text # <<>> /\ StripText(text) # <<>>)

BatchInit ==
    /\ jobs_collection = {}
    /\ ProcInit
    /\ ParseIdle /\ ConcIdle /\ QueryIdle /\ RetrIdle
    /\ RouteIdle /\ UploadIdle /\ ChunkIdle
    /\ b_pc = "call"
    /\ b_jobs \in BatchJobs
    /\ b_handed = [documents |-> <<>>, embeddings |-> <<>>, metadatas |-> <<>>, ids |-> <<>>]
    /\ b_stored = {}
    /\ b_result = [raised |-> FALSE, ids |-> <<>>]

\* add_jobs_batch lines 120-131 with generate_embeddings lines 72-93: the
\* three lists are built from the jobs and the embeddings come back, one
\* per valid text; an empty list or only empty texts raise ValueError,
\* which add_jobs_batch lets through
BuildLists ==
    /\ b_pc = "call"
    /\ LET documents == [i \in 1..Len(b_jobs) |-> b_jobs[i].description]
           metadatas == [i \in 1..Len(b_jobs) |-> b_jobs[i].metadata]
           ids == [i \in 1..Len(b_jobs) |-> b_jobs[i].id]
           valid == valid_texts(documents)
       IN  IF documents = <<>> \/ valid = <<>>
           THEN /\ b_handed' = b_handed
                /\ b_result' = [raised |-> TRUE, ids |-> <<>>]
                /\ b_pc' = "done"
           ELSE /\ b_handed' = [documents |-> documents,
                                 embeddings |-> [i \in 1..Len(valid) |-> Embedding(valid[i])],
                                 metadatas |-> metadatas,
                                 ids |-> ids]
                /\ b_result' = b_result
                /\ b_pc' = "add"
    /\ UNCHANGED <<b_jobs, b_stored>>
    /\ UNCHANGED <<procVars, parseVars, concVars, queryVars, retrVars,
                   routeVars, uploadVars, chunkVars>>

\* the embedding request itself fails (lines 92-93)
EmbeddingsFail ==
    /\ b_pc = "call"
    /\ valid_texts([i \in 1..Len(b_jobs) |-> b_jobs[i].description]) # <<>>
    /\ b_result' = [raised |-> TRUE, ids |-> <<>>]
    /\ b_pc' = "done"
    /\ UNCHANGED <<b_jobs, b_handed, b_stored>>
    /\ UNCHANGED <<procVars, parseVars, concVars, queryVars, retrVars,
                   routeVars, uploadVars, chunkVars>>

\* lines 134-142: jobs_collection.add and the return of ids. The index
\* pairs the lists by position. Lists of one length are stored; lists of
\* unequal lengths are refused by the index (it raises), or paired as far
\* as the shortest reaches, according to the index library in use.
CollectionAdd(refuse) ==
    /\ b_pc = "add"
    /\ refuse => Len(b_handed.embeddings) # Len(b_handed.documents)
    /\ IF refuse
       THEN /\ b_stored' = b_stored
            /\ b_result' = [raised |-> TRUE, ids |-> <<>>]
       ELSE /\ b_stored' = {[id |-> b_handed.ids[i],
                              document |-> b_handed.documents[i],
                              metadata |-> b_handed.metadatas[i],
                              embedding |-> b_handed.embeddings[i]] :
                                 i \in 1..Min(Len(b_handed.documents), Len(b_handed.embeddings))}
            /\ b_result' = [raised |-> FALSE, ids |-> b_handed.ids]
    /\ b_pc' = "done"
    /\ UNCHANGED <<b_jobs, b_handed>>
    /\ UNCHANGED <<procVars, parseVars, concVars, queryVars, retrVars,
                   routeVars, uploadVars, chunkVars>>

BatchNext ==
    \/ BuildLists
    \/ EmbeddingsFail
    \/ \E refuse \in BOOLEAN : CollectionAdd(refuse)

SpecBatch == BatchInit /\ [][BatchNext]_vars

\* ------------------------------------------------ chunk_text on its own
MaxChunkText == 6
MaxChunkSize == 5
MaxChunkIters == 8

RECURSIVE CollapseWhite(_)
\* re.sub(r'\s+', ' ', text): every run of whitespace becomes one blank
CollapseWhite(text) ==
    IF text = <<>> THEN <<>>
    ELSE IF IsWhite(text[1])
         THEN IF Len(text) > 1 /\ IsWhite(text[2])
              THEN CollapseWhite(Tail(text))
              ELSE Blank \o CollapseWhite(Tail(text))
         ELSE <<text[1]>> \o CollapseWhite(Tail(text))

\* DocumentParser.clean_text, lines 170-178: whitespace runs collapsed,
\* only word characters, whitespace and punctuation kept (after the first
\* substitution no line break is left for the third to find), strip()
clean_text(text) ==
    StripText(SelectSeq(CollapseWhite(text), LAMBDA c : c \in {"a", ".", " ", "\n"}))

\* text[from:to], both counted from 0; a negative bound counts from the
\* end, and both are clipped to the text
PySlice(text, from, to) ==
    LET n == Len(text)
        bound(i) == IF i < 0 THEN (IF i + n < 0 THEN 0 ELSE i + n) ELSE Min(i, n)
    IN  SubSeq(text, bound(from) + 1, bound(to))

\* str.rfind(c): the last index of c counted from 0, or -1
rfind(text, c) ==
    LET at == {i \in 1..Len(text) : text[i] = c}
    IN  IF at = {} THEN 0 - 1 ELSE (CHOOSE i \in at : \A j \in at : j <= i) - 1

\* line 149: break_point > chunk_size * 0.5
IsLateBreak(break_point, chunk_size) == 2 * break_point > chunk_size

ChunkInit ==
    /\ jobs_collection = {}
    /\ ProcInit
    /\ ParseIdle /\ ConcIdle /\ QueryIdle /\ RetrIdle
    /\ RouteIdle /\ UploadIdle /\ BatchIdle
    /\ k_pc = "call"
    /\ k_text \in UNION {[1..n -> {"a", ".", " "}] : n \in 0..MaxChunkText}
    /\ k_size \in 1..MaxChunkSize
    /\ k_overlap \in 0..(k_size - 1)
    /\ k_start = 0
    /\ k_prev = 0
    /\ k_chunks = <<>>
    /\ k_iters = 0

\* lines 128-135: the empty text returns at once; otherwise the text is
\* cleaned and the loop starts at 0
ChunkCall ==
    /\ k_pc = "call"
    /\ IF k_text = <<>>
       THEN /\ k_text' = k_text
            /\ k_pc' = "returned"
       ELSE /\ k_text' = clean_text(k_text)
            /\ k_pc' = "loop"
    /\ UNCHANGED <<k_size, k_overlap, k_start, k_prev, k_chunks, k_iters>>
    /\ UNCHANGED <<procVars, parseVars, concVars, queryVars, retrVars,
                   routeVars, uploadVars, batchVars>>

\* lines 137-154: one iteration of the while loop
ChunkStep ==
    /\ k_pc = "loop"
    /\ k_start < Len(k_text)
    /\ k_iters < MaxChunkIters
    /\ LET end0 == k_start + k_size
           chunk0 == PySlice(k_text, k_start, end0)
           last_period == rfind(chunk0, ".")
           last_newline == rfind(chunk0, "\n")
           break_point == IF last_period >= last_newline THEN last_period ELSE last_newline
           cut == end0 < Len(k_text) /\ IsLateBreak(break_point, k_size)
           chunk == IF cut THEN SubSeq(chunk0, 1, Min(break_point + 1, Len(chunk0))) ELSE chunk0
           end == IF cut THEN k_start + break_point + 1 ELSE end0
       IN  /\ k_chunks' = Append(k_chunks, StripText(chunk))
           /\ k_start' = end - k_overlap
    /\ k_prev' = k_start
    /\ k_iters' = k_iters + 1
    /\ UNCHANGED <<k_pc, k_text, k_size, k_overlap>>
    /\ UNCHANGED <<procVars, parseVars, concVars, queryVars, retrVars,
                   routeVars, uploadVars, batchVars>>

\* line 156: the loop is over; the empty chunks are dropped
ChunkReturn ==
    /\ k_pc = "loop"
    /\ ~(k_start < Len(k_text))
    /\ k_chunks' = SelectSeq(k_chunks, LAMBDA c : c # <<>>)
    /\ k_pc' = "returned"
    /\ UNCHANGED <<k_text, k_size, k_overlap, k_start, k_prev, k_iters>>
    /\ UNCHANGED <<procVars, parseVars, concVars, queryVars, retrVars,
                   routeVars, uploadVars, batchVars>>

ChunkNext == ChunkCall \/ ChunkStep \/ ChunkReturn

SpecChunk == ChunkInit /\ [][ChunkNext]_vars

\* ------------------------------------------------------------ properties
Range(f) == {f[i] : i \in DOMAIN f}

\* position of job id in the pre-filtered pool (0 when absent)
PoolPos(id) ==
    LET ps == {p \in 1..Len(pre_filtered_jobs) : pre_filtered_jobs[p].id = id}
    IN  IF ps = {} THEN 0 ELSE CHOOSE p \in ps : TRUE

AcceptedIds == [j \in 1..Len(matched_jobs) |-> matched_jobs[j].job_data.id]

\* number of matches accepted from the pool positions before position i
AcceptedBefore(i) ==
    Cardinality({j \in 1..Len(matched_jobs) : PoolPos(AcceptedIds[j]) < i})

\* C1: early stop.  Every completion call of a process() call is issued
\* while fewer than n_results matches are accepted, so once the count
\* equals n_results no further call is made; and when n_results matches
\* are held, no candidate behind the last accepted one was ever scored.
C1_EarlyStop ==
    /\ \A i \in 1..Len(llm_calls) :
           /\ llm_calls[i] = pre_filtered_jobs[i].id
           /\ AcceptedBefore(i) < n_results
    /\ Len(matched_jobs) >= n_results =>
           \A p \in 1..Len(pre_filtered_jobs) :
               (matched_jobs = <<>> \/ p > PoolPos(AcceptedIds[Len(matched_jobs)]))
                   => pre_filtered_jobs[p].id \notin Range(llm_calls)

\* three candidates, the first scores 90%, n_results = 1: one call
C1_Witness ==
    /\ pc = "done"
    /\ Len(pre_filtered_jobs) = 3
    /\ n_results = 1
    /\ Len(llm_calls) = 1
    /\ Len(matched_jobs) = 1
    /\ matched_jobs[1].score = 90

\* C2: the number of accepted matches never exceeds n_results, and the
\* scoring loop is left in the very step that brings the count to
\* n_results: the loop is never at its head again holding n_results
\* accepted matches.
C2_AcceptedBound ==
    /\ Len(matched_jobs) <= n_results
    /\ (pc = "loop" /\ matched_jobs # <<>>) => Len(matched_jobs) < n_results

\* the loop was left with two matches for n_results = 2 and a candidate
\* of the pool still unscored
C2_Witness ==
    /\ pc = "assemble"
    /\ n_results = 2
    /\ Len(matched_jobs) = 2
    /\ jobs_checked < Len(pre_filtered_jobs)

\* what the parser makes of the i-th completion text of this call
ParsedLog(i) ==
    parse_job_scores_from_response(llm_log[i].text, <<pre_filtered_jobs[i]>>, 1)

\* the calls whose text parsed to a score at or above the threshold
Qualifying ==
    SelectSeq([i \in 1..Len(llm_log) |-> i],
              LAMBDA i : ParsedLog(i)[1].score >= min_match_score)

\* ids of the jobs named by the title lines of a text, in text order
TitleIds(text) ==
    LET ts == SelectSeq(text, LAMBDA t : t.kind = "title")
    IN  [k \in 1..Len(ts) |-> ts[k].n]

LoopOver == pc \in {"assemble", "done"} /\ pre_filtered_jobs # <<>>

\* C3: discovery-order selection.  When the loop is over and every
\* completion text of the call parsed to a score, the accepted list is
\* exactly the scored candidates with score >= min_match_score, in pool
\* order with their scores; scoring stopped only at n_results matches or
\* at the end of the pool; and the returned text presents the accepted
\* jobs in that same order.
C3_DiscoveryOrder ==
    (LoopOver /\ \A i \in 1..Len(llm_log) : ParsedLog(i) # <<>>) =>
        /\ Len(matched_jobs) = Len(Qualifying)
        /\ \A j \in 1..Len(matched_jobs) :
               /\ matched_jobs[j].job_data = pre_filtered_jobs[Qualifying[j]]
               /\ matched_jobs[j].score = ParsedLog(Qualifying[j])[1].score
        /\ Len(llm_log) = Len(pre_filtered_jobs) \/ Len(matched_jobs) = n_results
        /\ \A i \in 1..Len(llm_log) : llm_log[i].id = pre_filtered_jobs[i].id
        /\ (pc = "done" /\ matched_jobs # <<>>) =>
               /\ result.kind = "matches"
               /\ TitleIds(result.text) = AcceptedIds

\* scores 90%, 50%, 75% in pool order, n_results = 2, threshold 0.6:
\* the first and the third candidate are returned, in that order
C3_Witness ==
    /\ pc = "done"
    /\ n_results = 2
    /\ min_match_score = 60
    /\ Len(llm_log) = 3
    /\ \A i \in 1..3 : ParsedLog(i) # <<>>
    /\ [i \in 1..3 |-> ParsedLog(i)[1].score] = <<90, 50, 75>>
    /\ AcceptedIds = <<pre_filtered_jobs[1].id, pre_filtered_jobs[3].id>>
    /\ TitleIds(result.text) = AcceptedIds

\* C4: a failed completion call never aborts the pass.  The failing
\* candidate is not accepted, the loop is left after a failure only when
\* the pool is exhausted, and the call returns its normal outcome (the
\* matches found among the other candidates, or 'none above threshold').
C4_FailureIsMiss ==
    \A i \in 1..Len(llm_log) : llm_log[i].failed =>
        /\ llm_log[i].id \notin Range(AcceptedIds)
        /\ pc \in {"loop", "assemble", "done"}
        /\ (pc = "loop" /\ i = Len(llm_log)) => job_idx = i + 1
        /\ (pc # "loop" /\ i = Len(llm_log)) => i = Len(pre_filtered_jobs)
        /\ pc = "done" =>
               /\ result.kind = IF matched_jobs = <<>> THEN "none_above" ELSE "matches"
               /\ TitleIds(result.text) = AcceptedIds
               /\ result.checked = Len(llm_log)

\* the first call failed, the second candidate was scored and returned
C4_Witness ==
    /\ pc = "done"
    /\ Len(llm_log) >= 2
    /\ llm_log[1].failed
    /\ result.kind = "matches"
    /\ AcceptedIds = <<pre_filtered_jobs[2].id>>

\* C5: when the corpus reports total_jobs = 0, the call returns the
\* corpus-empty outcome at once: no embedding, no index query, no
\* completion call.
C5_CorpusEmpty ==
    (stats_calls >= 1 /\ get_stats(jobs_collection) = 0) =>
        /\ pc = "done"
        /\ result.kind = "corpus_empty"
        /\ embed_calls = 0
        /\ search_calls = 0
        /\ llm_calls = <<>>

C5_Witness ==
    /\ pc = "done"
    /\ has_resume
    /\ stats_calls = 1
    /\ total_jobs = 0
    /\ result.kind = "corpus_empty"

\* C6: a failure of the embedding call or of the index query ends the
\* call: one embedding call, at most one query (no retry), no candidate
\* scored, no match, and the error outcome carries the cause.
C6_RetrievalFatal ==
    raised # "" =>
        /\ pc = "done"
        /\ result.kind = "error"
        /\ result.cause = raised
        /\ embed_calls = 1
        /\ search_calls = (IF raised = "search_failed" THEN 1 ELSE 0)
        /\ llm_calls = <<>>
        /\ jobs_checked = 0
        /\ matched_jobs = <<>>
        /\ all_job_results = <<>>

C6_Witness ==
    /\ pc = "done"
    /\ raised = "search_failed"
    /\ total_jobs = 3
    /\ result.kind = "error"
    /\ result.cause = "search_failed"

\* a text in which none of the score patterns can match
NoScorePattern(text) == \A k \in 1..Len(text) : text[k].kind \notin ScoreKinds

\* C7: a completion text without any extractable score counts as score
\* 0: its candidate is accepted exactly when min_match_score = 0, with
\* or without a '### Job #n:' header in the text.
C7_UnparseableIsZero ==
    \A i \in 1..Len(llm_log) :
        (~llm_log[i].failed /\ NoScorePattern(llm_log[i].text)) =>
            (llm_log[i].id \in Range(AcceptedIds) <=> min_match_score = 0)

\* a text that is one percentage in one of the supported formats, alone
\* or under a section header
IsFormatted(text) ==
    \/ Len(text) = 1 /\ text[1].kind \in ScoreKinds
    \/ Len(text) = 2 /\ text[1].kind = "hdr" /\ text[2].kind \in ScoreKinds

FormattedPercent(text) == text[Len(text)].n

\* C8: score extraction round trip.  A completion text built by
\* formatting the percentage p in one of the supported formats yields
\* the score p for the candidate.
C8_RoundTrip ==
    (p_pc = "returned" /\ p_start_job_num = 1 /\ IsFormatted(p_response)) =>
        /\ Len(p_scored) = 1
        /\ p_scored[1].score = FormattedPercent(p_response)

OverallKinds == {"overall", "boldIn", "boldOut"}

\* the 'Overall Match Score' values of a section
OverallValues(section) ==
    {section[k].n : k \in {j \in 1..Len(section) : section[j].kind \in OverallKinds}}

\* C9: pattern priority.  A section that holds one 'Overall Match Score:
\* a%' and, anywhere, plain 'Match Score: b%' or 'c% match' occurrences
\* yields the score a.
C9_OverallFirst ==
    (/\ p_pc = "returned"
     /\ p_start_job_num = 1
     /\ Len(p_response) >= 2
     /\ p_response[1].kind = "hdr"
     /\ \A k \in 2..Len(p_response) : p_response[k].kind # "hdr"
     /\ Cardinality(OverallValues(Tail(p_response))) = 1) =>
        /\ Len(p_scored) = 1
        /\ p_scored[1].score \in OverallValues(Tail(p_response))

\* the numbers of the '### Job #n:' labels of a text, in text order
HeaderLabels(text) ==
    LET hs == SelectSeq(text, LAMBDA t : t.kind = "hdr")
    IN  [k \in 1..Len(hs) |-> hs[k].n]

\* C10: in the returned text the k-th accepted match carries the label
\* '### Job #k:', k = 1..len(accepted).
C10_Renumbered ==
    (pc = "done" /\ result.kind = "matches") =>
        HeaderLabels(result.text) = [k \in 1..Len(matched_jobs) |-> k]

\* C11: sequential scoring.  The completion calls of a process() call go
\* to the pool entries 1, 2, 3, ... in that order, one call per entry: the
\* k-th call is about the k-th entry, no job is sent twice, jobs_checked
\* counts the calls, and after a failed call or a text without a score
\* the loop stands at the next entry, never at the same one.
C11_Sequential ==
    /\ jobs_checked = Len(llm_calls)
    /\ Len(llm_log) = Len(llm_calls)
    /\ Len(llm_calls) <= Len(pre_filtered_jobs)
    /\ \A i \in 1..Len(llm_calls) :
           /\ llm_log[i].id = llm_calls[i]
           /\ PoolPos(llm_calls[i]) = i
           /\ \A j \in 1..Len(llm_calls) : llm_calls[i] = llm_calls[j] => i = j
    /\ pc = "loop" => job_idx = jobs_checked + 1
    /\ pc \in {"assemble", "done"} => job_idx \in {jobs_checked, jobs_checked + 1}

\* a failed call on the first entry and a text without a score on the
\* second were each followed by the next entry, three calls in all
C11_Witness ==
    /\ pc = "done"
    /\ Len(llm_log) = 3
    /\ jobs_checked = 3
    /\ llm_log[1].failed
    /\ ~llm_log[2].failed /\ NoScorePattern(llm_log[2].text)
    /\ llm_calls = [i \in 1..3 |-> pre_filtered_jobs[i].id]

\* C12: one process() call makes no more completion calls than the
\* candidate-pool size chosen from total_jobs: the index returns at most
\* that many hits, the pre-filter only drops hits, and the loop calls the
\* service at most once per kept hit.
C12_CallBound ==
    pc \in {"loop", "assemble", "done"} =>
        /\ Len(llm_calls) <= max_candidates(total_jobs)
        /\ Len(llm_calls) <= Len(pre_filtered_jobs)
        /\ Len(pre_filtered_jobs) <= Len(all_job_results)
        /\ Len(all_job_results) <= max_candidates(total_jobs)

\* every hit of a three-job corpus was kept and scored: the bound is met
C12_Witness ==
    /\ pc = "done"
    /\ total_jobs = 3
    /\ max_candidates(total_jobs) = 3
    /\ Len(llm_calls) = 3
    /\ result.kind = "none_above"

\* C13: pre-filter boundary.  A retrieved hit is in the pool exactly when
\* its similarity_score is at least 0.35; the pool keeps the retrieval
\* order; and every job sent to the completion service is a retrieved hit
\* with similarity_score at least 0.35.
C13_PreFilter ==
    pc \in {"loop", "assemble", "done"} =>
        /\ \A i \in 1..Len(all_job_results) :
               (\E j \in 1..Len(pre_filtered_jobs) : pre_filtered_jobs[j] = all_job_results[i])
                   <=> all_job_results[i].similarity_score >= 35
        /\ \A j \in 1..Len(pre_filtered_jobs) :
               /\ \E i \in 1..Len(all_job_results) : all_job_results[i] = pre_filtered_jobs[j]
               /\ j < Len(pre_filtered_jobs) =>
                      pre_filtered_jobs[j].rank < pre_filtered_jobs[j + 1].rank
        /\ \A c \in 1..Len(llm_calls) :
               \E i \in 1..Len(all_job_results) :
                   /\ all_job_results[i].id = llm_calls[c]
                   /\ all_job_results[i].similarity_score >= 35

\* a hit at similarity exactly 0.35 was kept and scored while a hit at
\* 0.34 was dropped and never sent
C13_Witness ==
    /\ pc = "done"
    /\ Len(all_job_results) = 3
    /\ all_job_results[2].similarity_score = 35
    /\ all_job_results[3].similarity_score = 34
    /\ Len(pre_filtered_jobs) = 2
    /\ llm_calls = <<all_job_results[1].id, all_job_results[2].id>>

\* C14: candidate-pool tiering.  Once the retriever has answered, the
\* number of hits it was asked for (the index holds at least that many
\* jobs, so it is the number of hits returned) is min(50, total_jobs) up
\* to 500 jobs, min(50, total_jobs) up to 5000 jobs and 75 above; it
\* exceeds neither total_jobs nor 75.
C14_Tiering ==
    (pc \in {"loop", "assemble", "done"} /\ search_calls = 1 /\ raised = "") =>
        LET requested == Len(all_job_results)
        IN  /\ total_jobs > 0
            /\ total_jobs <= 500 => requested = Min(50, total_jobs)
            /\ (500 < total_jobs /\ total_jobs <= 5000) => requested = Min(50, total_jobs)
            /\ total_jobs > 5000 => requested = 75
            /\ requested <= total_jobs
            /\ requested <= 75

\* a corpus of 5001 jobs was asked for 75 hits
C14_Witness ==
    /\ pc = "done"
    /\ total_jobs = 5001
    /\ Len(all_job_results) = 75
    /\ jobs_checked = 1

\* C15: when the call returns after the loop with no accepted match, the
\* outcome is the 'no jobs above threshold' message, not the error
\* response; and the returned outcome tells the three cases apart: it is
\* 'no jobs above threshold' only after a successful retrieval,
\* 'corpus empty' only when the corpus has no job, and the error response
\* with a retrieval cause only when the retrieval raised.
C15_Outcomes ==
    pc = "done" =>
        /\ (all_job_results # <<>> /\ matched_jobs = <<>>) =>
               /\ result.kind = "none_above"
               /\ result.kind # "error"
               /\ result.cause = ""
               /\ result.checked = jobs_checked
        /\ result.kind = "none_above" =>
               total_jobs > 0 /\ raised = "" /\ all_job_results # <<>>
        /\ result.kind = "corpus_empty" =>
               total_jobs = 0 /\ raised = "" /\ search_calls = 0
        /\ (result.kind = "error" /\ result.cause \in RetrievalErrors) =>
               total_jobs > 0 /\ raised = result.cause /\ all_job_results = <<>>
        /\ raised # "" => result.kind = "error"
        /\ (stats_calls = 1 /\ total_jobs = 0) => result.kind = "corpus_empty"

\* the whole pool of two candidates was scored, one call failed and one
\* text scored below the threshold; nothing was accepted
C15_Witness ==
    /\ pc = "done"
    /\ Len(pre_filtered_jobs) = 2
    /\ jobs_checked = 2
    /\ llm_log[1].failed
    /\ matched_jobs = <<>>
    /\ result.kind = "none_above"
    /\ result.checked = 2

\* C16: every accepted match has a score in [0,1], at or above the
\* threshold of the call: whatever the completion texts were, no tuple
\* with a score above 1.0 or below 0 is in the accepted list.
C16_ScoreRange ==
    \A j \in 1..Len(matched_jobs) :
        /\ matched_jobs[j].score >= 0
        /\ matched_jobs[j].score <= 100
        /\ matched_jobs[j].score >= min_match_score

\* the sections of a text: one per '### Job #n:' header
SectionCount(text) == Cardinality(HeaderPositions(text))

\* C17: positional mapping of a combined response.  For a response with
\* one '### Job #n:' section per candidate of the batch job_results, the
\* parser returns one tuple per candidate, the i-th tuple holding the
\* i-th candidate and the text of the i-th section, for every
\* start_job_num >= 1.
C17_Positional ==
    (/\ p_pc = "returned"
     /\ p_start_job_num >= 1
     /\ SectionCount(p_response) = Len(p_job_results)) =>
        /\ Len(p_scored) = Len(p_job_results)
        /\ \A i \in 1..Len(p_scored) :
               /\ p_scored[i].job_data = p_job_results[i]
               /\ p_scored[i].section = Tail1(ReSplit(p_response))[i]

\* process() run on its own over ConcPool with the completion answers of
\* script: the value it returns
RECURSIVE RunAlone(_, _, _, _, _, _)
RunAlone(idx, matched, checked, script, n, m) ==
    IF idx > Len(ConcPool) \/ EnoughMatches(matched, n)
    THEN final_response(matched, checked)
    ELSE LET response == ServiceResponse(script[idx])
             st == loop_step(ConcPool[idx], response, matched, n, m)
         IN  IF st.stop
             THEN final_response(st.matched, checked + 1)
             ELSE RunAlone(idx + 1, st.matched, checked + 1, script, n, m)

\* C18: two process() calls running at once on the same agent instance
\* do not disturb each other: under every interleaving of their loop
\* iterations each call counts its own completion requests, accepts only
\* from its own answers, and returns what it returns when run alone with
\* the same answers.
C18_Isolation ==
    \A c \in Calls :
        /\ c_pc[c] \in {"loop", "assemble", "done"} =>
               /\ c_checked[c] = Cardinality({k \in 1..Len(c_requests) : c_requests[k] = c})
               /\ Len(c_matched[c]) <= c_checked[c]
               /\ Len(c_matched[c]) <= c_n[c]
        /\ c_pc[c] = "done" =>
               c_result[c] = RunAlone(1, <<>>, 0, c_script[c], c_n[c], c_min[c])

\* the two calls took turns at the completion service and returned
\* different results: call 1 one match, call 2 none
C18_Witness ==
    /\ c_pc = [c \in Calls |-> "done"]
    /\ c_requests = <<1, 2, 1, 2>>
    /\ c_result[1].kind = "matches"
    /\ Len(c_matched[1]) = 1
    /\ c_result[2].kind = "none_above"
    /\ c_result[2].checked = 2

\* a text with neither a section header nor a score
IsProse(text) == NoScorePattern(text) /\ HeaderPositions(text) = {}

\* the two calls are the same run but for candidate k: its completion
\* call fails in call 1 and returns prose in call 2
DifferAtFailure(k) ==
    /\ c_n[1] = c_n[2]
    /\ c_min[1] = c_min[2]
    /\ Len(c_script[1]) = Len(ConcPool)
    /\ Len(c_script[2]) = Len(ConcPool)
    /\ \A i \in 1..Len(ConcPool) : i # k => c_script[1][i] = c_script[2][i]
    /\ c_script[1][k].failed
    /\ ~c_script[2][k].failed
    /\ IsProse(c_script[2][k].text)

\* C19: a failed completion call is not visible in what process()
\* returns.  Two runs that differ only in candidate k (the call fails in
\* one, the text has neither header nor score in the other) return the
\* same accepted jobs with the same scores and the same response, for
\* every min_match_score > 0.
C19_FailureInvisible ==
    \A k \in 1..Len(ConcPool) :
        (/\ c_pc = [c \in Calls |-> "done"]
         /\ c_min[1] > 0
         /\ DifferAtFailure(k)) =>
            /\ c_matched[1] = c_matched[2]
            /\ c_result[1] = c_result[2]

\* the first candidate failed in one run and gave prose in the other;
\* both runs returned the second candidate as their one match
C19_Witness ==
    /\ c_pc = [c \in Calls |-> "done"]
    /\ c_min[1] > 0
    /\ DifferAtFailure(1)
    /\ c_result[1].kind = "matches"
    /\ c_result[2].kind = "matches"
    /\ Len(c_matched[2]) = 1
    /\ c_matched[2][1].job_data = ConcPool[2]

\* C20: _extract_key_resume_info is deterministic: any two evaluations
\* on the same resume, in the same run of the program or in different
\* runs, return the same query, the job titles in the same order.
C20_Deterministic ==
    \A r1, r2 \in Runs :
        \A i \in 1..Len(q_out[r1]) : \A j \in 1..Len(q_out[r2]) :
            q_out[r1][i] = q_out[r2][j]

\* every stretch of whitespace is one blank, none at either end
IsNormalized(text) ==
    /\ IsStripped(text)
    /\ \A k \in 1..Len(text) :
           text[k].kind = "s" =>
               /\ text[k].n = 1
               /\ k < Len(text) => text[k + 1].kind # "s"

\* C21: the query _extract_key_resume_info returns has at most 2000
\* characters, every stretch of whitespace in it is a single blank, and
\* it neither starts nor ends with whitespace.
C21_QueryShape ==
    \A r \in Runs : \A i \in 1..Len(q_out[r]) :
        /\ Chars(q_out[r][i]) <= 2000
        /\ IsNormalized(q_out[r][i])

\* a summary cut inside a stretch of three blanks, skills cut at 300
\* characters and an experience section cut inside whitespace: the query
\* returned is 199 + 1 + 300 + 1 + 299 characters
C21_Witness ==
    /\ q_resume.summary = <<Word(199), Space(3), Word(5)>>
    /\ q_resume.skills = <<Word(2500)>>
    /\ q_resume.experience = <<Word(299), Space(2), Word(1)>>
    /\ Len(q_out[1]) = 1
    /\ Chars(q_out[1][1]) = 800

\* C22: every candidate retrieve_jobs returns has similarity_score =
\* 1 - distance, and the similarity_score lies in [0,1], whatever distance
\* the index reported for the hit.
C22_SimilarityRange ==
    r_pc = "returned" =>
        \A i \in 1..Len(r_jobs) :
            /\ r_jobs[i].similarity_score = 100 - r_hits[i][2]
            /\ r_jobs[i].similarity_score >= 0
            /\ r_jobs[i].similarity_score <= 100

\* C23: in the list one retrieve_jobs call returns, the i-th candidate
\* has rank i (ranks 1..k, no gap, no repeat) and is the i-th hit of the
\* index, and similarity_score does not increase with rank.
C23_RankOrder ==
    r_pc = "returned" =>
        /\ Len(r_jobs) = Len(r_hits)
        /\ \A i \in 1..Len(r_jobs) :
               /\ r_jobs[i].rank = i
               /\ r_jobs[i].id = r_hits[i][1]
               /\ i < Len(r_jobs) =>
                      r_jobs[i].similarity_score >= r_jobs[i + 1].similarity_score

\* three hits at distances 0, 0.65 and 0.65 came back with ranks 1, 2, 3
\* and similarities 1, 0.35, 0.35
C23_Witness ==
    /\ r_pc = "returned"
    /\ Len(r_jobs) = 3
    /\ [i \in 1..3 |-> r_jobs[i].rank] = <<1, 2, 3>>
    /\ [i \in 1..3 |-> r_jobs[i].similarity_score] = <<100, 35, 35>>

\* C24: retrieval and ranking are read-only on the corpus: no step of a
\* process() call, whether the call succeeds or fails, changes the set of
\* entries of the jobs index, and so its count stays the same too.
C24_ReadOnly ==
    [][/\ jobs_collection' = jobs_collection
       /\ get_stats(jobs_collection') = get_stats(jobs_collection)]_vars

C24_Witness ==
    /\ pc = "done"
    /\ search_calls = 1
    /\ result.kind = "matches"
    /\ jobs_collection # {}

\* C25: a call with no context, an empty context or a context without the
\* key 'resume_text' returns the 'Please provide your resume' error
\* response and makes no statistics call, no retrieval and no completion
\* call.
C25_NoResume ==
    (pc # "idle" /\ (~context.given \/ "resume_text" \notin context.keys)) =>
        /\ pc = "done"
        /\ result = format_error_response("need_resume")
        /\ stats_calls = 0
        /\ embed_calls = 0
        /\ search_calls = 0
        /\ llm_calls = <<>>

C25_Witness ==
    /\ pc = "done"
    /\ context.given
    /\ context.keys = {"n_results"}
    /\ result.cause = "need_resume"

\* C26: job-matching key phrases have the highest routing priority: a
\* query of any length that contains one of them is routed to
\* 'job_matcher', and the completion service is not called.
C26_JobPhrasePriority ==
    (/\ s_pc \in {"routed", "answered"}
     /\ ContainsAny(StripText(LowerText(s_query)), job_phrases)) =>
        /\ s_route = "job_matcher"
        /\ s_llm_calls = 0

\* the answer contains none of the four names
NamesNoAgent(response) ==
    \A i \in 1..Len(AgentNames) :
        ~Contains(LowerText(StripText(response)), AgentNames[i].text)

\* C27: the route is exactly one of the four names for every query and
\* every outcome of the fallback call; a failed call, or an answer that
\* names no agent, gives 'general'; and at most one specialized agent is
\* called afterwards, the one named.
C27_OneRoute ==
    /\ s_pc \in {"routed", "answered"} =>
           s_route \in {"job_matcher", "resume_coach", "interview_prep", "general"}
    /\ (s_llm_calls = 1 /\ (s_llm \in {RoutingApology(e) : e \in RoutingErrors}
                               \/ NamesNoAgent(s_llm))) =>
           s_route = "general"
    /\ s_pc = "answered" =>
           s_agent_calls = IF s_route = "general" THEN <<>> ELSE <<s_route>>
    /\ Len(s_agent_calls) <= 1

C27_Witness ==
    /\ s_pc = "answered"
    /\ s_llm_calls = 1
    /\ s_llm \in {RoutingApology(e) : e \in RoutingErrors}
    /\ s_route = "general"
    /\ s_agent_calls = <<>>

\* C28: under concurrent uploads by two sessions, each session's
\* parse_resume returns the text of the file this session uploaded, or
\* reports an error; it never returns the text of the other session's
\* file.
C28_OwnText ==
    \A x \in Sessions :
        u_pc[x] = "done" => u_result[x] \in {u_upload[x].text, "error"}

\* C29: add_jobs_batch stores every job of the batch with the embedding
\* computed from its own description and returns one id per job in input
\* order; the four lists handed to the index always have the same length,
\* also when a description is empty or whitespace-only.
C29_AlignedLists ==
    /\ b_pc \in {"add", "done"} =>
           /\ Len(b_handed.embeddings) = Len(b_handed.documents)
           /\ Len(b_handed.metadatas) = Len(b_handed.documents)
           /\ Len(b_handed.ids) = Len(b_handed.documents)
    /\ b_pc = "done" /\ ~b_result.raised =>
           /\ b_result.ids = [i \in 1..Len(b_jobs) |-> b_jobs[i].id]
           /\ b_stored = {[id |-> b_jobs[i].id,
                            document |-> b_jobs[i].description,
                            metadata |-> b_jobs[i].metadata,
                            embedding |-> Embedding(b_jobs[i].description)] :
                               i \in 1..Len(b_jobs)}

\* C30: whenever 0 <= chunk_overlap < chunk_size, chunk_text terminates:
\* the start index strictly increases on every loop iteration, also when
\* the chunk is cut back to a sentence or line boundary, and every chunk
\* returned has at most chunk_size characters.
C30_StartIncreases ==
    /\ (k_pc = "loop" /\ k_iters > 0) => k_start > k_prev
    /\ k_pc = "returned" => \A i \in 1..Len(k_chunks) : Len(k_chunks[i]) <= k_size

====
